---- MODULE Spec2Model ----
(***************************************************************************)
(* State-machine model of the FE-GO-LOSTMEDIA front end.                   *)
(*                                                                         *)
(* The application shows one page at a time; `page' says which page        *)
(* component is mounted, and the variables are the React state of that     *)
(* page, the asynchronous handler invocations that are in flight (with the *)
(* values their closures captured), and the external backend they talk to. *)
(* A React event handler runs to its first `await' in one step; every      *)
(* continuation after an awaited fetch is a step of its own.               *)
(***************************************************************************)
EXTENDS Integers, Sequences, FiniteSets, TLC

VARIABLES
    page,          \* which page component is mounted
    session,       \* next-auth session (fixed during a run)
    navigated,     \* router.push / router.replace target, "" while on the page
    \* ---- Home (pages/index.tsx) ----
    mounted,       \* the mount effect has run
    posts,         \* Home.posts
    loading,       \* Home.loading / Post.loading / AdminUpdatePostPage.loading / Profile.loading
    loadingMore,   \* Home.loadingMore
    offset,        \* Home.offset
    hasMore,       \* Home.hasMore
    feedCalls,     \* loadPosts invocations awaiting their fetch
    feedLog,       \* history: every feed request issued, with the posts held then
    \* ---- PostCard / SharePost ----
    cards,         \* PostCard state per post id: mounted, isLiked, likesCount
    shPost,        \* SharePost.post is loaded
    shLiked,       \* SharePost.isLiked
    shLikes,       \* SharePost.likesCount
    likeCalls,     \* handleLike invocations in flight (request or response)
    likeClicks,    \* history: number of like requests issued
    \* ---- backend (external) ----
    beLiked,       \* backend: the user likes post p
    beLikes,       \* backend: like count of post p
    reported,      \* history: like counts the backend has reported per post
    \* ---- Post composer / AdminUpdatePostPage ----
    mode,                         \* Post: "create" or "edit"
    title,
    description,
    category,
    customCategory,
    mediaUrl,
    contentSections,
    contentSectionImageFiles,
    contentSectionImagePreviews,
    selectedFeaturedImage,
    featuredImagePreview,
    showSubmitModal,              \* showSubmitModal / showUpdateModal
    confirmLoading,
    uploadingFeaturedImage,
    userPostsCount,
    userRole,
    postLimitReached,
    toast,                        \* description of the last toast shown
    \* ---- Profile ----
    editDialogOpen,
    formData,
    selectedProfileImage,
    profileImagePreview,
    uploadingImage,
    \* ---- handlers in flight and the requests they made ----
    sub,           \* the submit handler invocation in flight, with its closure
    stray,         \* uploads of an abandoned Promise.all still running
    countCalls,    \* fetchPostsCount invocations awaiting their fetch
    loadCalls,     \* post loads (loadPostForEdit / fetchPost) awaiting their fetch
    confirms,      \* history: number of confirmed submits
    uploadsSent,   \* history: requests sent to /api/cloudnary
    writesSent,    \* history: create / update requests sent to the backend
    \* ---- UpdatePostListPage (My Posts) ----
    listPosts,        \* UpdatePostListPage.posts: the ids of the posts listed
    showDeleteModal,
    deletePostId,     \* 0 stands for null
    deleteLoading,
    deleteCalls,      \* handleDeleteConfirm invocations awaiting their fetch
    listCalls,        \* fetchPosts invocations awaiting their fetch
    bePosts,          \* backend: the ids of the user's posts
    lastClicked,      \* history: the id given to the latest handleDeleteClick
    deleteSent,       \* history: the ids of the DELETE requests, in order
    deleteStep,       \* history: the last step of the delete dialog
    \* ---- useRequireAuth ----
    redirectTo,       \* the argument of the hook, "undefined" when omitted
    pushes,           \* history: router.push calls of the hook, in order
    renders,          \* history: number of renders of the hook
    \* ---- Navbar / SearchDialog ----
    searchOpen,
    searchQuery,
    searchResults,
    searchLoading,
    timers,           \* pending setTimeout timers of the debounce effect
    searchCalls,      \* performSearch invocations awaiting apiClient.searchPosts
    searchSent,       \* history: the queries of the search requests issued
    sinceChange       \* history: milliseconds since the query was last set

textVars == <<title, description, category, customCategory>>
sectionVars == <<contentSections, contentSectionImageFiles, contentSectionImagePreviews>>
featuredVars == <<mediaUrl, selectedFeaturedImage, featuredImagePreview>>
flagVars == <<showSubmitModal, confirmLoading, uploadingFeaturedImage>>
limitVars == <<userPostsCount, userRole, postLimitReached>>
profileVars == <<editDialogOpen, formData, selectedProfileImage, profileImagePreview,
                 uploadingImage>>
flightVars == <<sub, stray, countCalls, loadCalls>>
historyVars == <<confirms, uploadsSent, writesSent>>

formVars == <<mode, textVars, sectionVars, featuredVars, flagVars, limitVars, toast,
              profileVars, flightVars, historyVars>>

feedVars == <<posts, loadingMore, offset, hasMore, feedCalls, feedLog>>
likeVars == <<cards, shPost, shLiked, shLikes, likeCalls, likeClicks>>
backendVars == <<beLiked, beLikes, reported>>

deleteVars == <<listPosts, showDeleteModal, deletePostId, deleteLoading, deleteCalls,
                listCalls, bePosts, lastClicked, deleteSent, deleteStep>>
authVars == <<redirectTo, pushes, renders>>
searchVars == <<searchOpen, searchQuery, searchResults, searchLoading, timers,
                searchCalls, searchSent, sinceChange>>

\* the state of the pages other than the feed, the share page and the forms
otherPageVars == <<deleteVars, authVars, searchVars>>

vars == <<page, session, navigated, mounted, loading, feedVars, likeVars, backendVars,
          formVars, otherPageVars>>

----------------------------------------------------------------------------
(* Bounds of the model *)

MaxLikes == 1       \* cap on likes given by other users
MaxLikeClicks == 3  \* like requests issued in a run
MaxPages == 2       \* full pages the feed may load

\* the post whose likes are followed: the one the share page shows
\* (router.query.id); every other post of the feed is only listed
ShareId == 1

LikeIds == {ShareId}

----------------------------------------------------------------------------
(* Session *)

\* useSession() without a session: status "loading" or "unauthenticated"
NoSession(status) ==
    [present |-> FALSE, accessToken |-> FALSE, userType |-> "none", status |-> status]

\* useSession() with a session; userType "none" stands for an undefined userType
Authenticated(accessToken, userType) ==
    [present |-> TRUE, accessToken |-> accessToken, userType |-> userType,
     status |-> "authenticated"]

\* session?.accessToken
HasToken == session.present /\ session.accessToken

----------------------------------------------------------------------------
(* JavaScript helpers *)

\* a || b on numbers: 0 is falsy
OrNum(a, b) == IF a # 0 THEN a ELSE b

\* a || b on booleans
OrBool(a, b) == IF a THEN a ELSE b

RemoveAt(s, i) == [j \in 1..(Len(s) - 1) |-> IF j < i THEN s[j] ELSE s[j + 1]]

----------------------------------------------------------------------------
(* Home: feed pagination *)

limit == 20

\* page sizes and totals the backend may answer with
PageSizes == {0, 1, limit}
Totals == {0, limit, limit + 1, MaxPages * limit + 1}

\* the like count the backend holds for a post
BackendLikes(id) == IF id \in LikeIds THEN beLikes[id] ELSE 0

\* GET /api/v1/posts?limit&offset answered with n posts
BackendPage(off, n) ==
    [i \in 1..n |-> [postId |-> off + i, likesCount |-> BackendLikes(off + i)]]

\* loadPosts up to its fetch
loadPosts(reset) ==
    /\ page = "home"
    /\ navigated = ""
    /\ LET currentOffset == IF reset THEN 0 ELSE offset
       IN /\ feedCalls' = feedCalls \cup {[reset |-> reset, currentOffset |-> currentOffset]}
          /\ feedLog' = feedLog \cup
                {[reset |-> reset, offset |-> currentOffset, held |-> Len(posts)]}
    /\ IF reset
          THEN loading' = TRUE /\ offset' = 0 /\ UNCHANGED loadingMore
          ELSE loadingMore' = TRUE /\ UNCHANGED <<loading, offset>>
    /\ UNCHANGED <<posts, hasMore>>

\* useEffect(() => { loadPosts(true) }, [])
HomeMount ==
    /\ page = "home"
    /\ ~mounted
    /\ mounted' = TRUE
    /\ loadPosts(TRUE)
    /\ UNCHANGED <<formVars, page, otherPageVars,
                   session, navigated, likeVars, backendVars>>

\* the Load More button
handleLoadMore ==
    /\ page = "home"
    /\ mounted
    /\ ~loading /\ Len(posts) > 0 /\ hasMore      \* the button is rendered
    /\ ~loadingMore /\ hasMore
    /\ Len(posts) + limit <= MaxPages * limit + 1
    /\ loadPosts(FALSE)
    /\ UNCHANGED <<formVars, page, otherPageVars,
                   session, navigated, mounted, likeVars,
                   backendVars>>

\* PostCard mounts with useState(false), useState(post.likesCount || 0)
MountCards(old, new) ==
    [p \in LikeIds |->
        IF old[p].mounted THEN old[p]
        ELSE IF \E i \in 1..Len(new) : new[i].postId = p
             THEN LET i == CHOOSE i \in 1..Len(new) : new[i].postId = p
                  IN [mounted |-> TRUE, isLiked |-> FALSE,
                      likesCount |-> OrNum(new[i].likesCount, 0)]
             ELSE old[p]]

\* variant: the offset advances by a whole page whatever arrived
NextOffset_WholePage(currentOffset, n) == currentOffset + limit

\* offset stored when a page of n posts has arrived
NextOffset(currentOffset, n) == currentOffset + n

\* loadPosts after the fetch resolved with n posts and a total
loadPostsDone(call, n, total) ==
    /\ page = "home"
    /\ call \in feedCalls
    /\ LET postsData == BackendPage(call.currentOffset, n)
           newPosts == IF call.reset THEN postsData ELSE posts \o postsData
       IN /\ posts' = newPosts
          /\ cards' = MountCards(cards, newPosts)
          /\ reported' = [p \in LikeIds |->
                IF \E i \in 1..n : postsData[i].postId = p
                   THEN reported[p] \cup {beLikes[p]} ELSE reported[p]]
    /\ hasMore' = (n = limit /\ call.currentOffset + limit < total)
    /\ offset' = NextOffset(call.currentOffset, n)
    /\ loading' = FALSE
    /\ loadingMore' = FALSE
    /\ feedCalls' = feedCalls \ {call}
    /\ UNCHANGED <<formVars, page, otherPageVars,
                   session, navigated, mounted, feedLog,
                   shPost, shLiked, shLikes, likeCalls, likeClicks, beLiked,
                   beLikes>>

\* loadPosts when fetch or response.json() throws
loadPostsFail(call) ==
    /\ page = "home"
    /\ call \in feedCalls
    /\ loading' = FALSE
    /\ loadingMore' = FALSE
    /\ feedCalls' = feedCalls \ {call}
    /\ UNCHANGED <<formVars, page, otherPageVars,
                   session, navigated, mounted, posts,
                   offset, hasMore, feedLog, likeVars, backendVars>>

----------------------------------------------------------------------------
(* Likes: PostCard (home feed) and SharePost *)

\* Home.handleLike, passed to PostCard as onLike
HomeHandleLike(ps, postId) ==
    [i \in 1..Len(ps) |->
        IF ps[i].postId = postId
           THEN [ps[i] EXCEPT !.likesCount = ps[i].likesCount + 1]
           ELSE ps[i]]

\* a handleLike invocation waiting for its fetch; it closes over the
\* isLiked and likesCount of the render it was created in
LikeRequest(owner, p, isLiked, likesCount) ==
    [owner |-> owner, post |-> p, isLiked |-> isLiked, likesCount |-> likesCount,
     stage |-> "request", ok |-> FALSE, dataIsLiked |-> FALSE, dataLikesCount |-> 0]

\* variant: the card flips its flag and count at click time
PostCardHandleLike_Optimistic(p) ==
    /\ page = "home"
    /\ navigated = ""
    /\ cards[p].mounted
    /\ ~loading /\ Len(posts) > 0
    /\ HasToken
    /\ likeClicks < MaxLikeClicks
    /\ likeClicks' = likeClicks + 1
    /\ likeCalls' = Append(likeCalls,
           LikeRequest("card", p, cards[p].isLiked, cards[p].likesCount))
    /\ cards' = [cards EXCEPT ![p] =
           [@ EXCEPT !.isLiked = ~cards[p].isLiked,
                     !.likesCount = IF cards[p].isLiked THEN cards[p].likesCount - 1
                                    ELSE cards[p].likesCount + 1]]
    /\ UNCHANGED <<formVars, page, otherPageVars,
                   session, navigated, loading, mounted,
                   feedVars, shPost, shLiked, shLikes, backendVars>>

\* PostCard.handleLike up to its fetch
PostCardHandleLike(p) ==
    /\ page = "home"
    /\ navigated = ""
    /\ cards[p].mounted
    /\ ~loading /\ Len(posts) > 0          \* the cards are rendered
    /\ IF ~HasToken
          THEN /\ navigated' = "/auth/login"
               /\ UNCHANGED <<likeCalls, likeClicks>>
          ELSE /\ likeClicks < MaxLikeClicks
               /\ likeClicks' = likeClicks + 1
               /\ likeCalls' = Append(likeCalls,
                      LikeRequest("card", p, cards[p].isLiked, cards[p].likesCount))
               /\ UNCHANGED navigated
    /\ UNCHANGED <<formVars, page, otherPageVars,
                   session, loading, mounted, feedVars,
                   cards, shPost, shLiked, shLikes, backendVars>>

\* SharePost.handleLike up to its fetch
SharePostHandleLike ==
    /\ page = "share"
    /\ navigated = ""
    /\ ~loading /\ shPost                  \* the post is rendered
    /\ IF ~HasToken
          THEN /\ navigated' = "/auth/login"
               /\ UNCHANGED <<likeCalls, likeClicks>>
          ELSE /\ likeClicks < MaxLikeClicks
               /\ likeClicks' = likeClicks + 1
               /\ likeCalls' = Append(likeCalls,
                      LikeRequest("share", ShareId, shLiked, shLikes))
               /\ UNCHANGED navigated
    /\ UNCHANGED <<formVars, page, otherPageVars,
                   session, loading, mounted, feedVars,
                   cards, shPost, shLiked, shLikes, backendVars>>

\* backend: POST /api/v1/posts/:id/like toggles the like and answers with the
\* new flag and count
BackendLikeOk(i) ==
    /\ i \in 1..Len(likeCalls)
    /\ likeCalls[i].stage = "request"
    /\ LET p == likeCalls[i].post
           nowLiked == ~beLiked[p]
           count == IF nowLiked THEN beLikes[p] + 1 ELSE beLikes[p] - 1
       IN /\ beLiked' = [beLiked EXCEPT ![p] = nowLiked]
          /\ beLikes' = [beLikes EXCEPT ![p] = count]
          /\ reported' = [reported EXCEPT ![p] = @ \cup {count}]
          /\ likeCalls' = [likeCalls EXCEPT ![i] =
                [@ EXCEPT !.stage = "response", !.ok = TRUE,
                          !.dataIsLiked = nowLiked, !.dataLikesCount = count]]
    /\ UNCHANGED <<formVars, page, otherPageVars,
                   session, navigated, loading, mounted,
                   feedVars, cards, shPost, shLiked, shLikes, likeClicks>>

\* backend: the like request is answered with an error status
BackendLikeError(i) ==
    /\ i \in 1..Len(likeCalls)
    /\ likeCalls[i].stage = "request"
    /\ likeCalls' = [likeCalls EXCEPT ![i] = [@ EXCEPT !.stage = "response", !.ok = FALSE]]
    /\ UNCHANGED <<formVars, page, otherPageVars,
                   session, navigated, loading, mounted,
                   feedVars, cards, shPost, shLiked, shLikes, likeClicks,
                   backendVars>>

\* another user likes post p
BackendOtherLike(p) ==
    /\ page \in {"home", "share"}
    /\ beLikes[p] - (IF beLiked[p] THEN 1 ELSE 0) < MaxLikes
    /\ beLikes' = [beLikes EXCEPT ![p] = @ + 1]
    /\ UNCHANGED <<formVars, page, otherPageVars,
                   session, navigated, loading, mounted,
                   feedVars, likeVars, beLiked, reported>>

\* the fetch of a like request rejects (network error): catch, console.error
LikeFetchThrows(i) ==
    /\ i \in 1..Len(likeCalls)
    /\ likeCalls[i].stage = "request"
    /\ likeCalls' = RemoveAt(likeCalls, i)
    /\ UNCHANGED <<formVars, page, otherPageVars,
                   session, navigated, loading, mounted,
                   feedVars, cards, shPost, shLiked, shLikes, likeClicks,
                   backendVars>>

\* PostCard.handleLike after its fetch resolved
PostCardLikeDone(i) ==
    /\ i \in 1..Len(likeCalls)
    /\ likeCalls[i].stage = "response"
    /\ likeCalls[i].owner = "card"
    /\ LET c == likeCalls[i]
       IN IF c.ok
             THEN /\ cards' = [cards EXCEPT ![c.post] =
                       [@ EXCEPT !.isLiked = OrBool(c.dataIsLiked, ~c.isLiked),
                                 !.likesCount = OrNum(c.dataLikesCount, c.likesCount)]]
                  /\ posts' = HomeHandleLike(posts, c.post)
             ELSE UNCHANGED <<cards, posts>>
    /\ likeCalls' = RemoveAt(likeCalls, i)
    /\ UNCHANGED <<formVars, page, otherPageVars,
                   session, navigated, loading, mounted,
                   loadingMore, offset, hasMore, feedCalls, feedLog, shPost,
                   shLiked, shLikes, likeClicks, backendVars>>

\* SharePost.handleLike after its fetch resolved
SharePostLikeDone(i) ==
    /\ i \in 1..Len(likeCalls)
    /\ likeCalls[i].stage = "response"
    /\ likeCalls[i].owner = "share"
    /\ LET c == likeCalls[i]
       IN IF c.ok
             THEN /\ shLiked' = OrBool(c.dataIsLiked, ~c.isLiked)
                  /\ shLikes' = OrNum(c.dataLikesCount, c.likesCount)
             ELSE UNCHANGED <<shLiked, shLikes>>
    /\ likeCalls' = RemoveAt(likeCalls, i)
    /\ UNCHANGED <<formVars, page, otherPageVars,
                   session, navigated, loading, mounted,
                   feedVars, cards, shPost, likeClicks, backendVars>>

\* SharePost: useEffect on id runs fetchPost up to its fetch
SharePostMount ==
    /\ page = "share"
    /\ ~mounted
    /\ mounted' = TRUE
    /\ loading' = TRUE
    /\ UNCHANGED <<formVars, page, otherPageVars,
                   session, navigated, posts, loadingMore,
                   offset, hasMore, feedCalls, feedLog, likeVars,
                   backendVars>>

\* SharePost.fetchPost after its fetch: ok with the post, or not ok / thrown
fetchPostDone(ok) ==
    /\ page = "share"
    /\ mounted /\ loading
    /\ IF ok
          THEN /\ shPost' = TRUE
               /\ shLiked' = OrBool(beLiked[ShareId], FALSE)
               /\ shLikes' = OrNum(beLikes[ShareId], 0)
               /\ reported' = [reported EXCEPT ![ShareId] = @ \cup {beLikes[ShareId]}]
          ELSE UNCHANGED <<shPost, shLiked, shLikes, reported>>
    /\ loading' = FALSE
    /\ UNCHANGED <<formVars, page, otherPageVars,
                   session, navigated, mounted, feedVars,
                   cards, likeCalls, likeClicks, beLiked, beLikes>>

----------------------------------------------------------------------------
(* Strings.  A string is a text between leading and trailing white space;  *)
(* the texts are named and TextLen gives their length in characters.       *)

TextLen(text) ==
    CASE text = "" -> 0
      [] text = "x" -> 1
      [] text = "ab" -> 2
      [] text = "abc" -> 3
      [] text = "NEWS" -> 4
      [] text = "DOKSIL" -> 6
      [] text = "GLOBAL" -> 6
      [] text = "CRYPTO" -> 6
      [] text = "__CUSTOM__" -> 10
      [] text = "text500" -> 500
      [] text = "text501" -> 501
      [] text = "text5000" -> 5000
      [] text = "text5001" -> 5001

Str(text) == [lead |-> 0, text |-> text, trail |-> 0]
Padded(text) == [lead |-> 1, text |-> text, trail |-> 1]
Blank == [lead |-> 1, text |-> "", trail |-> 0]

\* String.prototype.length
StrLen(s) == s.lead + TextLen(s.text) + s.trail

\* String.prototype.trim
Trim(s) == [lead |-> 0, text |-> s.text, trail |-> 0]

----------------------------------------------------------------------------
(* JavaScript arrays with empty slots.  An array is a sequence; an empty   *)
(* slot is the value `hole'.  Spreading turns empty slots into undefined,  *)
(* filter skips them, and an assignment past the end creates them.         *)
(* Indices are 1-based here: index i stands for the code's i - 1.          *)

\* elements of contentSectionImageFiles / contentSectionImagePreviews
Arr(items) == [kind |-> "array", items |-> items]
HoleA == [kind |-> "hole", items |-> <<>>]
UndefA == [kind |-> "undefined", items |-> <<>>]

\* [...a]
Spread(a, hole, undef) ==
    [k \in 1..Len(a) |-> IF a[k] = hole THEN undef ELSE a[k]]

\* a[i] = v
SetAt(a, i, v, hole) ==
    IF i <= Len(a) THEN [a EXCEPT ![i] = v]
    ELSE a \o [k \in 1..(i - Len(a) - 1) |-> hole] \o <<v>>

\* a.filter((_, idx) => idx !== i)
FilterNotIndex(a, i, hole) ==
    LET F[k \in 0..Len(a)] ==
            IF k = 0 THEN <<>>
            ELSE IF k = i \/ a[k] = hole THEN F[k - 1]
            ELSE Append(F[k - 1], a[k])
    IN F[Len(a)]

\* a[i] is truthy, for an array of arrays
HasArray(a, i) == i <= Len(a) /\ a[i].kind = "array"

\* a[i] || []
ItemsAt(a, i) == IF HasArray(a, i) THEN a[i].items ELSE <<>>

\* files.filter((f) => !!f).length
CountFiles(items) == Cardinality({k \in 1..Len(items) : items[k] = "file"})

----------------------------------------------------------------------------
(* Content sections of the post composer (Post) and of the edit page       *)
(* (AdminUpdatePostPage)                                                   *)

MaxSections == 2     \* sections a form may hold
MaxSlots == 6        \* image slots a privileged user may add to a section
MaxFileSlot == 1     \* image slots a file may be chosen for

SectionTypes == {"image", "code", "video", "link", "html"}

NewSection(type, order) ==
    [type |-> type,
     imageDetail |-> IF type = "image" THEN <<"">> ELSE <<>>,
     order |-> order]

\* the form can be edited: the page is shown and no modal dialog covers it
FormEditable ==
    /\ page \in {"post", "update"}
    /\ mounted
    /\ navigated = ""
    /\ ~showSubmitModal

OnlyOneToast(type) ==
    [title |-> "Limit reached",
     description |->
        CASE type = "image" -> "Only one Image Section is allowed."
          [] type = "code" -> "Only one Copy Text Section is allowed."
          [] type = "video" -> "Only one Video Section is allowed."
          [] type = "link" -> "Only one Link Section is allowed."
          [] type = "html" -> "Only one HTML Section is allowed."]

\* a section of the type is already in the form
HasSectionOfType(type) ==
    \E i \in 1..Len(contentSections) : contentSections[i].type = type

\* variant: the check for an existing section of the type is missing
AddRejected_Never(type) == FALSE

\* Post.addContentSection rejects the type
AddRejected(type) == HasSectionOfType(type)

\* the new section is appended, with file and preview rows for an image section
AppendSection(type) ==
    /\ Len(contentSections) < MaxSections
    /\ contentSections' =
          Append(contentSections, NewSection(type, Len(contentSections)))
    /\ IF type = "image"
          THEN /\ contentSectionImageFiles' =
                     Append(Spread(contentSectionImageFiles, HoleA, UndefA),
                            Arr(<<"null">>))
               /\ contentSectionImagePreviews' =
                     Append(Spread(contentSectionImagePreviews, HoleA, UndefA),
                            Arr(<<"">>))
          ELSE UNCHANGED <<contentSectionImageFiles, contentSectionImagePreviews>>

\* the variables no section handler touches
SectionFrame ==
    UNCHANGED <<page, otherPageVars,
                session, navigated, mounted, loading, feedVars, likeVars,
                backendVars, mode, textVars, featuredVars, flagVars, limitVars,
                profileVars, flightVars, historyVars>>

\* Post.addContentSection
PostAddContentSection(type) ==
    /\ FormEditable
    /\ page = "post"
    /\ IF AddRejected(type)
          THEN /\ toast' = OnlyOneToast(type)
               /\ UNCHANGED sectionVars
          ELSE /\ AppendSection(type)
               /\ UNCHANGED toast
    /\ SectionFrame

\* AdminUpdatePostPage.addContentSection
AdminAddContentSection(type) ==
    /\ FormEditable
    /\ page = "update"
    /\ type # "image"                    \* the page has no button for images
    /\ AppendSection(type)
    /\ UNCHANGED toast
    /\ SectionFrame

\* isPrivilegedRole
isPrivilegedRole(role) == role \in {"owner", "admin", "mod"}

\* imageLimit of addImageDetail
ImageLimit(role) == IF role = "god" THEN 30 ELSE 5

\* variant: the limit is checked after the slot it allows
AddImageRejected_OffByOne(role, currentCount) ==
    ~isPrivilegedRole(role) /\ currentCount > ImageLimit(role)

\* addImageDetail refuses to add a slot
AddImageRejected(role, currentCount) ==
    ~isPrivilegedRole(role) /\ currentCount >= ImageLimit(role)

ImageLimitToast(role) ==
    [title |-> "Limit reached",
     description |-> IF role = "god"
                        THEN "You can only add up to 30 images per section."
                        ELSE "You can only add up to 5 images per section."]

\* the row of section si in a files or previews array, extended by one slot
RowPlus(a, si, v) ==
    LET newA == Spread(a, HoleA, UndefA)
        row == IF HasArray(newA, si) THEN newA[si].items ELSE <<>>
    IN SetAt(newA, si, Arr(Append(Spread(row, "hole", "undefined"), v)), HoleA)

\* Post.addImageDetail / AdminUpdatePostPage.addImageDetail
addImageDetail(si) ==
    /\ FormEditable
    /\ si \in 1..Len(contentSections)
    /\ contentSections[si].type = "image"          \* the button is in image sections
    /\ LET currentCount == Len(contentSections[si].imageDetail)
       IN IF AddImageRejected(session.userType, currentCount)
             THEN /\ toast' = ImageLimitToast(session.userType)
                  /\ UNCHANGED sectionVars
             ELSE /\ currentCount < MaxSlots \/ ~isPrivilegedRole(session.userType)
                  /\ Len(ItemsAt(contentSectionImageFiles, si)) < MaxSlots
                  /\ Len(ItemsAt(contentSectionImagePreviews, si)) < MaxSlots
                  /\ contentSections' = [contentSections EXCEPT ![si].imageDetail =
                        Append(@, "")]
                  /\ contentSectionImageFiles' =
                        RowPlus(contentSectionImageFiles, si, "null")
                  /\ contentSectionImagePreviews' =
                        RowPlus(contentSectionImagePreviews, si, "")
                  /\ UNCHANGED toast
    /\ SectionFrame

\* the row of section si without slot ii, when the row exists
RowMinus(a, si, ii) ==
    LET newA == Spread(a, HoleA, UndefA)
    IN IF HasArray(newA, si)
          THEN [newA EXCEPT ![si] = Arr(FilterNotIndex(newA[si].items, ii, "hole"))]
          ELSE newA

\* Post.removeImageDetail / AdminUpdatePostPage.removeImageDetail
removeImageDetail(si, ii) ==
    /\ FormEditable
    /\ si \in 1..Len(contentSections)
    /\ contentSections[si].type = "image"
    /\ ii \in 1..Len(contentSections[si].imageDetail)
    /\ contentSections' = [contentSections EXCEPT ![si].imageDetail =
          FilterNotIndex(@, ii, "hole")]
    /\ contentSectionImageFiles' = RowMinus(contentSectionImageFiles, si, ii)
    /\ contentSectionImagePreviews' = RowMinus(contentSectionImagePreviews, si, ii)
    /\ UNCHANGED toast
    /\ SectionFrame

\* removeContentSection
removeContentSection(si) ==
    /\ FormEditable
    /\ si \in 1..Len(contentSections)
    /\ contentSections' =
          LET kept == FilterNotIndex(contentSections, si, HoleA)
          IN [i \in 1..Len(kept) |-> [kept[i] EXCEPT !.order = i - 1]]
    /\ contentSectionImageFiles' = FilterNotIndex(contentSectionImageFiles, si, HoleA)
    /\ contentSectionImagePreviews' =
          FilterNotIndex(contentSectionImagePreviews, si, HoleA)
    /\ UNCHANGED toast
    /\ SectionFrame

\* moveContentSection: the up button is disabled on the first section and
\* the down button on the last
moveContentSection(si, direction) ==
    /\ FormEditable
    /\ si \in 1..Len(contentSections)
    /\ ~(direction = "up" /\ si = 1)
    /\ ~(direction = "down" /\ si = Len(contentSections))
    /\ LET newIndex == IF direction = "up" THEN si - 1 ELSE si + 1
           swapped == [contentSections EXCEPT ![si] = contentSections[newIndex],
                                              ![newIndex] = contentSections[si]]
       IN contentSections' =
             [i \in 1..Len(swapped) |-> [swapped[i] EXCEPT !.order = i - 1]]
    /\ UNCHANGED <<contentSectionImageFiles, contentSectionImagePreviews, toast>>
    /\ SectionFrame

\* a row of files or previews with slot ii assigned
RowSet(a, si, ii, v) ==
    LET newA == Spread(a, HoleA, UndefA)
        row == IF HasArray(newA, si) THEN newA[si].items ELSE <<>>
    IN SetAt(newA, si, Arr(SetAt(row, ii, v, "hole")), HoleA)

ImagesAddedToast(role) ==
    [title |-> "Limit reached",
     description |-> IF role = "god"
        THEN "You have added 30 images. This is the maximum allowed per section."
        ELSE "You have added 5 images. This is the maximum allowed per section."]

\* handleContentSectionImageChange: a file (or none) is chosen for slot ii
handleContentSectionImageChange(si, ii, file) ==
    /\ FormEditable
    /\ si \in 1..Len(contentSections)
    /\ contentSections[si].type = "image"
    /\ ii \in 1..Len(contentSections[si].imageDetail)
    /\ ii <= MaxFileSlot
    /\ contentSectionImageFiles' = RowSet(contentSectionImageFiles, si, ii, file)
    /\ contentSectionImagePreviews' =
          RowSet(contentSectionImagePreviews, si, ii,
                 IF file = "file" THEN "blob" ELSE "")
    /\ contentSections' = [contentSections EXCEPT ![si].imageDetail =
          SetAt(@, ii, "", "hole")]                 \* updateImageDetail(.., "")
    /\ LET currentCount == CountFiles(ItemsAt(contentSectionImageFiles, si))
       IN IF ~isPrivilegedRole(session.userType)
              /\ currentCount = ImageLimit(session.userType)
             THEN toast' = ImagesAddedToast(session.userType)
             ELSE UNCHANGED toast
    /\ SectionFrame

----------------------------------------------------------------------------
(* Text fields, featured image and the confirmation modal *)

\* the variables the handlers of the text fields, the featured image and the
\* modal never touch
FieldFrame ==
    UNCHANGED <<page, otherPageVars,
                session, navigated, mounted, loading, feedVars, likeVars,
                backendVars, mode, sectionVars, limitVars, profileVars,
                flightVars, historyVars>>

\* onChange of the title input: setTitle
setTitle(value) ==
    /\ FormEditable
    /\ title' = value
    /\ UNCHANGED <<description, category, customCategory, featuredVars, flagVars, toast>>
    /\ FieldFrame

\* onChange of the description textarea: setDescription
setDescription(value) ==
    /\ FormEditable
    /\ description' = value
    /\ UNCHANGED <<title, category, customCategory, featuredVars, flagVars, toast>>
    /\ FieldFrame

\* onValueChange of the category select
onCategoryChange(value) ==
    /\ FormEditable
    /\ category' = value
    /\ IF page = "post" /\ value # Str("__CUSTOM__")
          THEN customCategory' = Str("")
          ELSE UNCHANGED customCategory
    /\ UNCHANGED <<title, description, featuredVars, flagVars, toast>>
    /\ FieldFrame

\* category === "__CUSTOM__"
isCustomCategory == category = Str("__CUSTOM__")

\* onChange of the custom category input, shown when isCustomCategory
setCustomCategory(value) ==
    /\ FormEditable
    /\ page = "post"
    /\ isCustomCategory
    /\ customCategory' = value
    /\ UNCHANGED <<title, description, category, featuredVars, flagVars, toast>>
    /\ FieldFrame

\* the size limit of a featured image
MaxFeaturedSize == 3 * 1024 * 1024

\* the files the user may pick: size in bytes and whether the type is image/*
PickedFiles == [size : {MaxFeaturedSize, MaxFeaturedSize + 1}, image : BOOLEAN]

\* imageSchema / the checks of AdminUpdatePostPage.handleFeaturedImageChange
FeaturedImageIssue(file) ==
    IF file.size > MaxFeaturedSize THEN "Image size must be less than 3MB"
    ELSE IF ~file.image THEN "File must be an image"
    ELSE ""

\* variant: choosing the featured image uploads it at once
handleFeaturedImageChange_Eager(file) ==
    /\ FormEditable
    /\ ~uploadingFeaturedImage /\ ~loading
    /\ FeaturedImageIssue(file) = ""
    /\ selectedFeaturedImage' = "file"
    /\ featuredImagePreview' = "blob"
    /\ uploadsSent' = uploadsSent + 1
    /\ UNCHANGED <<page, otherPageVars,
                   session, navigated, mounted, loading, feedVars, likeVars,
                   backendVars, mode, sectionVars, limitVars, profileVars,
                   flightVars, confirms, writesSent, textVars, mediaUrl, flagVars,
                   toast>>

\* handleFeaturedImageChange: the input is disabled while uploading or loading
handleFeaturedImageChange(file) ==
    /\ FormEditable
    /\ ~uploadingFeaturedImage /\ ~loading
    /\ IF FeaturedImageIssue(file) # ""
          THEN /\ toast' = [title |-> "Error", description |-> FeaturedImageIssue(file)]
               /\ UNCHANGED <<selectedFeaturedImage, featuredImagePreview>>
          ELSE /\ selectedFeaturedImage' = "file"
               /\ featuredImagePreview' = "blob"
               /\ UNCHANGED toast
    /\ UNCHANGED <<textVars, mediaUrl, flagVars>>
    /\ FieldFrame

\* handleRemoveFeaturedImage: the button is shown over the preview
handleRemoveFeaturedImage ==
    /\ FormEditable
    /\ featuredImagePreview # "null"
    /\ selectedFeaturedImage' = "null"
    /\ featuredImagePreview' = "null"
    /\ IF page = "post" THEN mediaUrl' = "" ELSE UNCHANGED mediaUrl
    /\ UNCHANGED <<textVars, flagVars, toast>>
    /\ FieldFrame

\* the submit button is enabled
SubmitEnabled ==
    /\ ~loading
    /\ StrLen(Trim(title)) > 0
    /\ (page = "post" => ~postLimitReached)

\* variant: the form submit sends the create / update request itself
handleSubmit_Direct ==
    /\ FormEditable
    /\ SubmitEnabled
    /\ writesSent' = writesSent + 1
    /\ UNCHANGED <<page, otherPageVars,
                   session, navigated, mounted, loading, feedVars, likeVars,
                   backendVars, mode, textVars, sectionVars, featuredVars, flagVars,
                   limitVars, toast, profileVars, flightVars, confirms, uploadsSent>>

\* Post.handleSubmit / the onSubmit of the edit form: open the modal
handleSubmit ==
    /\ FormEditable
    /\ SubmitEnabled
    /\ showSubmitModal' = TRUE
    /\ UNCHANGED <<textVars, featuredVars, confirmLoading, uploadingFeaturedImage, toast>>
    /\ FieldFrame

\* the Cancel button of the modal, disabled while confirmLoading
handleCancel ==
    /\ page \in {"post", "update"}
    /\ navigated = ""
    /\ showSubmitModal
    /\ ~confirmLoading
    /\ showSubmitModal' = FALSE
    /\ UNCHANGED <<textVars, featuredVars, confirmLoading, uploadingFeaturedImage, toast>>
    /\ FieldFrame

\* onOpenChange of the Dialog: Escape or a click outside closes the modal
onOpenChange ==
    /\ page \in {"post", "update"}
    /\ navigated = ""
    /\ showSubmitModal
    /\ confirmLoading                    \* otherwise the same step as handleCancel
    /\ showSubmitModal' = FALSE
    /\ UNCHANGED <<textVars, featuredVars, confirmLoading, uploadingFeaturedImage, toast>>
    /\ FieldFrame

----------------------------------------------------------------------------
(* Submitting: uploads first, then the create / update request *)

MaxConfirms == 2     \* presses of a confirm / submit button in a run

NoToast == [title |-> "", description |-> ""]
ErrorToast(text) == [title |-> "Error", description |-> text]
SuccessToast(text) == [title |-> "Success", description |-> text]

\* no submit handler is running
IdleSub ==
    [phase |-> "idle", title |-> Str(""), description |-> Str(""),
     category |-> Str(""), featured |-> FALSE, pending |-> <<>>,
     selected |-> 0, uploaded |-> 0]

\* files left to upload per section: the files of the row of every image section
SectionPending(sections, files) ==
    [si \in 1..Len(sections) |->
        IF sections[si].type = "image" /\ HasArray(files, si)
           THEN CountFiles(files[si].items) ELSE 0]

SumSeq(q) ==
    LET F[k \in 0..Len(q)] == IF k = 0 THEN 0 ELSE F[k - 1] + q[k]
    IN F[Len(q)]

\* upload chains of a Promise.all that have a request in flight
Busy(pending) == Cardinality({si \in 1..Len(pending) : pending[si] > 0})

\* what a submit handler closes over when the confirm button is pressed
Closure(t, d, c) ==
    LET pending == SectionPending(contentSections, contentSectionImageFiles)
    IN [phase |-> "confirm", title |-> t, description |-> d, category |-> c,
        featured |-> (selectedFeaturedImage = "file"),
        pending |-> pending,
        selected |-> SumSeq(pending) + (IF selectedFeaturedImage = "file" THEN 1 ELSE 0),
        uploaded |-> 0]

\* the result of running a handler to its next await: the invocation left in
\* flight, upload and write requests sent, whether `finally' was reached,
\* the toast shown
Step(c, sent, wrote, done, t) ==
    [sub |-> c, sent |-> sent, wrote |-> wrote, done |-> done, toast |-> t]

DescriptionMax == 5000

\* postMainFieldsSchema: description  .max(...)
DescriptionTooLong(d) == StrLen(d) > DescriptionMax

\* variant: the title check is missing
TitleTooShort_Never(t) == FALSE

\* postMainFieldsSchema: title  .min(3)
TitleTooShort(t) == StrLen(t) < 3

\* postMainFieldsSchema.safeParse: the message of the first issue, "" if none
MainFieldsIssue(t, d, c) ==
    IF TitleTooShort(t) THEN "Title must be at least 3 characters"
    ELSE IF DescriptionTooLong(d) THEN "Description max 500 characters"
    ELSE IF StrLen(c) < 1 THEN "Category is required"
    ELSE ""

\* postAPI.createPost / postAPI.updatePost up to the fetch
PostWrite(c) ==
    IF ~HasToken
       THEN Step(IdleSub, 0, 0, TRUE,
                 ErrorToast("JWT token not available. Please login again."))
       ELSE Step([c EXCEPT !.phase = "write"], 0, 1, FALSE, NoToast)

\* Post.handleSubmitConfirm from the Promise.all over the sections on
PostSections(c) ==
    IF Busy(c.pending) > 0
       THEN Step([c EXCEPT !.phase = "sections"], Busy(c.pending), 0, FALSE, NoToast)
       ELSE PostWrite(c)

\* the variables the submit handlers of Post and AdminUpdatePostPage never touch
SubmitFrame ==
    UNCHANGED <<page, otherPageVars,
                session, mounted, feedVars, likeVars, backendVars, mode,
                profileVars, countCalls, loadCalls>>

\* the effect of a Step on the flags and the histories; `starting' is true
\* in the step of the button press
Apply(r, starting) ==
    /\ sub' = r.sub
    /\ uploadsSent' = uploadsSent + r.sent
    /\ writesSent' = writesSent + r.wrote
    /\ toast' = IF r.toast = NoToast THEN toast ELSE r.toast
    /\ IF r.done
          THEN loading' = FALSE /\ confirmLoading' = FALSE /\ showSubmitModal' = FALSE
          ELSE IF starting
                  THEN loading' = TRUE /\ confirmLoading' = TRUE
                       /\ UNCHANGED showSubmitModal
                  ELSE UNCHANGED <<loading, confirmLoading, showSubmitModal>>

\* an early return of a confirm handler: toast, setConfirmLoading(false)
Rejected(t) ==
    /\ toast' = t
    /\ confirmLoading' = FALSE
    /\ UNCHANGED <<loading, showSubmitModal, uploadingFeaturedImage, sub,
                   uploadsSent, writesSent>>

\* Post.handleSubmitConfirm up to its first await
handleSubmitConfirm ==
    /\ page = "post"
    /\ navigated = ""
    /\ showSubmitModal /\ ~confirmLoading
    /\ sub.phase = "idle"
    /\ confirms < MaxConfirms
    /\ confirms' = confirms + 1
    /\ LET t == Trim(title)
           d == Trim(description)
           c == IF isCustomCategory THEN Trim(customCategory) ELSE Trim(category)
           issue == MainFieldsIssue(t, d, c)
       IN IF ~session.present
             THEN Rejected(ErrorToast("Please sign in to create a post"))
             ELSE IF issue # ""
             THEN Rejected(ErrorToast(issue))
             ELSE IF selectedFeaturedImage = "file"
             THEN /\ uploadingFeaturedImage' = TRUE
                  /\ Apply(Step([Closure(t, d, c) EXCEPT !.phase = "featured"],
                                1, 0, FALSE, NoToast), TRUE)
             ELSE /\ UNCHANGED uploadingFeaturedImage
                  /\ Apply(PostSections(Closure(t, d, c)), TRUE)
    /\ UNCHANGED <<navigated, textVars, sectionVars, featuredVars, limitVars, stray>>
    /\ SubmitFrame

Outcomes == {"ok", "notOk", "throws"}

\* Post.handleSubmitConfirm after the upload of the featured image:
\* answered ok, answered with an error status, or the fetch / json() threw
PostFeaturedDone(outcome) ==
    /\ page = "post"
    /\ sub.phase = "featured"
    /\ CASE outcome = "ok" ->
              /\ mediaUrl' = "uploaded"
              /\ uploadingFeaturedImage' = FALSE
              /\ Apply(PostSections([sub EXCEPT !.uploaded = @ + 1]), FALSE)
         [] outcome = "notOk" ->
              /\ uploadingFeaturedImage' = FALSE
              /\ Apply(Step(IdleSub, 0, 0, TRUE, ErrorToast("Failed to upload image")),
                       FALSE)
              /\ UNCHANGED mediaUrl
         [] outcome = "throws" ->
              /\ Apply(Step(IdleSub, 0, 0, TRUE, ErrorToast("Failed to save post")),
                       FALSE)
              /\ UNCHANGED <<mediaUrl, uploadingFeaturedImage>>
    /\ UNCHANGED <<navigated, textVars, sectionVars, selectedFeaturedImage,
                   featuredImagePreview, limitVars, stray, confirms>>
    /\ SubmitFrame

\* the chains of a rejected Promise.all that go on uploading
Abandoned(pending, si) ==
    SelectSeq([pending EXCEPT ![si] = 0], LAMBDA n : n > 0)

\* one request of the section uploads has been answered; a failure rejects
\* the Promise.all while the other chains go on
PostSectionUploadDone(si, outcome) ==
    /\ page = "post"
    /\ sub.phase = "sections"
    /\ si \in 1..Len(sub.pending)
    /\ sub.pending[si] > 0
    /\ IF outcome = "ok"
          THEN LET left == [sub.pending EXCEPT ![si] = @ - 1]
                   c == [sub EXCEPT !.pending = left, !.uploaded = @ + 1]
               IN /\ IF left[si] > 0
                        THEN Apply(Step(c, 1, 0, FALSE, NoToast), FALSE)
                        ELSE IF Busy(left) > 0
                        THEN Apply(Step(c, 0, 0, FALSE, NoToast), FALSE)
                        ELSE Apply(PostWrite(c), FALSE)
                  /\ UNCHANGED stray
          ELSE /\ Apply(Step(IdleSub, 0, 0, TRUE,
                             ErrorToast(IF outcome = "notOk" THEN "Upload failed"
                                                             ELSE "Failed to save post")),
                        FALSE)
               /\ stray' = stray \o Abandoned(sub.pending, si)
    /\ UNCHANGED <<navigated, textVars, sectionVars, featuredVars, limitVars,
                   uploadingFeaturedImage, confirms>>
    /\ SubmitFrame

\* an upload chain left over from a rejected Promise.all gets its answer
StrayUploadDone(k, ok) ==
    /\ k \in 1..Len(stray)
    /\ IF ok /\ stray[k] > 1
          THEN /\ stray' = [stray EXCEPT ![k] = @ - 1]
               /\ uploadsSent' = uploadsSent + 1
          ELSE /\ stray' = RemoveAt(stray, k)
               /\ UNCHANGED uploadsSent
    /\ UNCHANGED <<navigated, loading, textVars, sectionVars, featuredVars, flagVars,
                   limitVars, toast, sub, confirms, writesSent>>
    /\ SubmitFrame

\* Post.handleSubmitConfirm after the answer to createPost / updatePost
PostWriteDone(outcome) ==
    /\ page = "post"
    /\ sub.phase = "write"
    /\ IF outcome # "ok"
          THEN Apply(Step(IdleSub, 0, 0, TRUE,
                          ErrorToast(IF outcome = "notOk" THEN "HTTP error"
                                                          ELSE "Failed to save post")),
                     FALSE)
          ELSE IF mode = "edit"
          THEN Apply(Step(IdleSub, 0, 0, TRUE, SuccessToast("Post updated successfully!")),
                     FALSE)
          ELSE Apply(Step([sub EXCEPT !.phase = "count"], 0, 0, FALSE,
                          SuccessToast("Post created successfully!")), FALSE)
    /\ UNCHANGED <<navigated, textVars, sectionVars, featuredVars, limitVars,
                   uploadingFeaturedImage, stray, confirms>>
    /\ SubmitFrame

\* postsCount by role at which creating is blocked
roleLimit(role) ==
    CASE role = "member" -> 1
      [] role = "vip" -> 5
      [] role = "god" -> 20

\* the value handed to setPostLimitReached
postLimit(role, postsCount) ==
    /\ role \in {"member", "vip", "god"}
    /\ postsCount >= roleLimit(role)

\* the answers of GET /api/v1/posts/user/posts-count
CountRoles == {"member", "vip", "god", "admin"}
PostsCounts == {0, 1, 2, 3, 4, 5, 9, 10, 19, 20}

\* data.success: the three state setters
SetPostsCount(role, postsCount) ==
    /\ userPostsCount' = postsCount
    /\ userRole' = role
    /\ postLimitReached' = postLimit(role, postsCount)

\* Post.handleSubmitConfirm after the refresh of the posts count: navigate
\* to the new post, or reset the form when the answer carried no postId
PostCountDone(success, role, postsCount, hasPostId) ==
    /\ page = "post"
    /\ sub.phase = "count"
    /\ IF success THEN SetPostsCount(role, postsCount) ELSE UNCHANGED limitVars
    /\ Apply(Step(IdleSub, 0, 0, TRUE, NoToast), FALSE)
    /\ IF hasPostId
          THEN /\ navigated' = "/share/id"
               /\ UNCHANGED <<textVars, sectionVars, featuredVars>>
          ELSE /\ title' = Str("")
               /\ description' = Str("")
               /\ category' = Str("")
               /\ mediaUrl' = ""
               /\ contentSections' = <<>>
               /\ selectedFeaturedImage' = "null"
               /\ featuredImagePreview' = "null"
               /\ contentSectionImageFiles' = <<>>
               /\ contentSectionImagePreviews' = <<>>
               /\ UNCHANGED <<navigated, customCategory>>
    /\ UNCHANGED <<uploadingFeaturedImage, stray, confirms>>
    /\ SubmitFrame

\* the mount effects of Post: the redirect of an unauthenticated visitor,
\* loadPostForEdit up to its await, fetchPostsCount up to its await
PostMount ==
    /\ page = "post"
    /\ ~mounted
    /\ mounted' = TRUE
    /\ navigated' = IF session.status = "unauthenticated" THEN "/" ELSE navigated
    /\ IF session.present /\ mode = "create"
          THEN countCalls' = countCalls + 1
          ELSE UNCHANGED countCalls
    /\ IF session.present /\ mode = "edit"
          THEN loading' = TRUE /\ loadCalls' = loadCalls + 1
          ELSE UNCHANGED <<loading, loadCalls>>
    /\ UNCHANGED <<page, otherPageVars,
                   session, feedVars, likeVars, backendVars, mode,
                   textVars, sectionVars, featuredVars, flagVars, limitVars, toast,
                   profileVars, sub, stray, historyVars>>

CountOutcomes == {"success", "noSuccess", "throws"}

\* fetchPostsCount after the answer
fetchPostsCountDone(outcome, role, postsCount) ==
    /\ page = "post"
    /\ countCalls > 0
    /\ countCalls' = countCalls - 1
    /\ IF outcome = "success"
          THEN SetPostsCount(role, postsCount)
          ELSE UNCHANGED limitVars
    /\ toast' = IF outcome = "throws" THEN ErrorToast("Failed to fetch posts count")
                                      ELSE toast
    /\ UNCHANGED <<page, otherPageVars,
                   session, navigated, mounted, loading, feedVars, likeVars,
                   backendVars, mode, textVars, sectionVars, featuredVars, flagVars,
                   profileVars, sub, stray, loadCalls, historyVars>>

\* an image section as the backend stores it, with n urls
StoredImages(n, order) ==
    [type |-> "image", imageDetail |-> [k \in 1..n |-> "url"], order |-> order]

\* the posts GET /api/v1/posts/:id may return
BackendPosts ==
    { [title |-> Str("abc"), description |-> Str(""), category |-> Str("NEWS"),
       mediaUrl |-> "url", sections |-> <<NewSection("code", 1)>>],
      [title |-> Str("abc"), description |-> Str("x"), category |-> Str("NEWS"),
       mediaUrl |-> "", sections |-> <<StoredImages(5, 1)>>],
      [title |-> Str("abc"), description |-> Str(""), category |-> Str("NEWS"),
       mediaUrl |-> "", sections |-> <<StoredImages(1, 1), StoredImages(1, 2)>>] }

\* loadPostForEdit after the answer
loadPostForEditDone(ok, post) ==
    /\ page = "post"
    /\ loadCalls > 0
    /\ loadCalls' = loadCalls - 1
    /\ loading' = FALSE
    /\ IF ok
          THEN /\ title' = post.title
               /\ description' = post.description
               /\ category' = post.category
               /\ mediaUrl' = post.mediaUrl
               /\ contentSections' = post.sections
               /\ IF session.userType = "member" /\ post.mediaUrl # ""
                     THEN /\ selectedFeaturedImage' = "null"
                          /\ featuredImagePreview' = post.mediaUrl
                     ELSE UNCHANGED <<selectedFeaturedImage, featuredImagePreview>>
               /\ UNCHANGED toast
          ELSE /\ toast' = ErrorToast("Failed to load post for editing")
               /\ UNCHANGED <<title, description, category, featuredVars, contentSections>>
    /\ UNCHANGED <<page, otherPageVars,
                   session, navigated, mounted, feedVars, likeVars, backendVars,
                   mode, customCategory, contentSectionImageFiles,
                   contentSectionImagePreviews, flagVars, limitVars, profileVars,
                   sub, stray, countCalls, historyVars>>

\* the effect of AdminUpdatePostPage that fetches the post, up to its await
fetchPost ==
    /\ page = "update"
    /\ ~mounted
    /\ mounted' = TRUE
    /\ loading' = TRUE
    /\ loadCalls' = loadCalls + 1
    /\ UNCHANGED <<page, otherPageVars,
                   session, navigated, feedVars, likeVars, backendVars, mode,
                   textVars, sectionVars, featuredVars, flagVars, limitVars, toast,
                   profileVars, sub, stray, countCalls, historyVars>>

\* the rows fetchPost builds for the sections of the loaded post
InitialRows(sections, fill) ==
    [si \in 1..Len(sections) |->
        IF sections[si].type = "image"
           THEN Arr([k \in 1..Len(sections[si].imageDetail) |-> fill])
           ELSE Arr(<<>>)]

\* fetchPost after the answer
fetchPostLoaded(ok, post) ==
    /\ page = "update"
    /\ loadCalls > 0
    /\ loadCalls' = loadCalls - 1
    /\ loading' = FALSE
    /\ IF ok
          THEN /\ title' = post.title
               /\ description' = post.description
               /\ category' = post.category
               /\ mediaUrl' = post.mediaUrl
               /\ contentSections' = post.sections
               /\ featuredImagePreview' =
                     IF post.mediaUrl # "" THEN post.mediaUrl ELSE featuredImagePreview
               /\ contentSectionImageFiles' = InitialRows(post.sections, "null")
               /\ contentSectionImagePreviews' = InitialRows(post.sections, "url")
               /\ UNCHANGED toast
          ELSE /\ toast' = ErrorToast("Failed to load post")
               /\ UNCHANGED <<title, description, category, mediaUrl,
                              featuredImagePreview, sectionVars>>
    /\ UNCHANGED <<page, otherPageVars,
                   session, navigated, mounted, feedVars, likeVars, backendVars,
                   mode, customCategory, selectedFeaturedImage, flagVars, limitVars,
                   profileVars, sub, stray, countCalls, historyVars>>

\* AdminUpdatePostPage.handleUpdateConfirm: the PUT request
AdminWrite(c) == Step([c EXCEPT !.phase = "write"], 0, 1, FALSE, NoToast)

\* AdminUpdatePostPage.handleUpdateConfirm from the featured image on
AdminFeatured(c) ==
    IF c.featured
       THEN Step([c EXCEPT !.phase = "featured"], 1, 0, FALSE, NoToast)
       ELSE AdminWrite(c)

\* AdminUpdatePostPage.handleUpdateConfirm from the Promise.all on
AdminSections(c) ==
    IF Busy(c.pending) > 0
       THEN Step([c EXCEPT !.phase = "sections"], Busy(c.pending), 0, FALSE, NoToast)
       ELSE AdminFeatured(c)

\* setUploadingFeaturedImage(true) when the step starts the featured upload
AdminUploadingFlag(r) ==
    uploadingFeaturedImage' =
        IF r.sub.phase = "featured" THEN TRUE ELSE uploadingFeaturedImage

\* AdminUpdatePostPage.handleUpdateConfirm up to its first await
handleUpdateConfirm ==
    /\ page = "update"
    /\ navigated = ""
    /\ showSubmitModal /\ ~confirmLoading
    /\ sub.phase = "idle"
    /\ confirms < MaxConfirms
    /\ confirms' = confirms + 1
    /\ IF ~session.present
          THEN Rejected(ErrorToast("Please sign in to update a post"))
          ELSE IF StrLen(Trim(title)) = 0
          THEN Rejected(ErrorToast("Please enter a title"))
          ELSE IF ~HasToken
          THEN /\ Apply(Step(IdleSub, 0, 0, TRUE, ErrorToast("JWT token not available")),
                        TRUE)
               /\ UNCHANGED uploadingFeaturedImage
          ELSE LET r == AdminSections(Closure(Trim(title), Trim(description),
                                              Trim(category)))
               IN Apply(r, TRUE) /\ AdminUploadingFlag(r)
    /\ UNCHANGED <<navigated, textVars, sectionVars, featuredVars, limitVars, stray>>
    /\ SubmitFrame

\* one request of the section uploads of the edit page has been answered
AdminSectionUploadDone(si, outcome) ==
    /\ page = "update"
    /\ sub.phase = "sections"
    /\ si \in 1..Len(sub.pending)
    /\ sub.pending[si] > 0
    /\ IF outcome = "ok"
          THEN LET left == [sub.pending EXCEPT ![si] = @ - 1]
                   c == [sub EXCEPT !.pending = left, !.uploaded = @ + 1]
                   r == IF left[si] > 0 THEN Step(c, 1, 0, FALSE, NoToast)
                        ELSE IF Busy(left) > 0 THEN Step(c, 0, 0, FALSE, NoToast)
                        ELSE AdminFeatured(c)
               IN /\ Apply(r, FALSE)
                  /\ AdminUploadingFlag(r)
                  /\ UNCHANGED stray
          ELSE /\ Apply(Step(IdleSub, 0, 0, TRUE,
                             ErrorToast(IF outcome = "notOk" THEN "Upload failed"
                                                             ELSE "Failed to update post")),
                        FALSE)
               /\ stray' = stray \o Abandoned(sub.pending, si)
               /\ UNCHANGED uploadingFeaturedImage
    /\ UNCHANGED <<navigated, textVars, sectionVars, featuredVars, limitVars, confirms>>
    /\ SubmitFrame

\* handleUpdateConfirm after the upload of the featured image; its inner
\* catch and finally run for an error status and for a thrown fetch alike
AdminFeaturedDone(outcome) ==
    /\ page = "update"
    /\ sub.phase = "featured"
    /\ uploadingFeaturedImage' = FALSE
    /\ IF outcome = "ok"
          THEN Apply(AdminWrite([sub EXCEPT !.uploaded = @ + 1]), FALSE)
          ELSE Apply(Step(IdleSub, 0, 0, TRUE,
                          ErrorToast("Failed to upload featured image")), FALSE)
    /\ UNCHANGED <<navigated, textVars, sectionVars, featuredVars, limitVars, stray,
                   confirms>>
    /\ SubmitFrame

\* handleUpdateConfirm after the answer to the PUT request
AdminWriteDone(outcome) ==
    /\ page = "update"
    /\ sub.phase = "write"
    /\ Apply(Step(IdleSub, 0, 0, TRUE,
                  CASE outcome = "ok" -> SuccessToast("Post updated successfully!")
                    [] outcome = "notOk" -> ErrorToast("Failed to update post")
                    [] outcome = "throws" -> ErrorToast("Failed to update post")),
             FALSE)
    /\ navigated' = IF outcome = "ok" THEN "/share/id" ELSE navigated
    /\ UNCHANGED <<textVars, sectionVars, featuredVars, limitVars,
                   uploadingFeaturedImage, stray, confirms>>
    /\ SubmitFrame

----------------------------------------------------------------------------
(* The edit dialog of the profile page (Profile) *)

\* the variables the handlers of Profile never touch
ProfileFrame ==
    UNCHANGED <<page, otherPageVars,
                session, navigated, mounted, feedVars, likeVars, backendVars,
                mode, textVars, sectionVars, featuredVars, flagVars, limitVars,
                stray, countCalls, loadCalls, writesSent>>

\* useState of formData; handleEditClick fills it from the session
EmptyForm == [username |-> "", bio |-> "", profilePic |-> ""]
SessionForm == [username |-> "name", bio |-> "", profilePic |-> ""]

\* Profile.handleEditClick
handleEditClick ==
    /\ page = "profile"
    /\ session.present
    /\ ~editDialogOpen
    /\ formData' = SessionForm
    /\ selectedProfileImage' = "null"
    /\ profileImagePreview' = ""
    /\ editDialogOpen' = TRUE
    /\ UNCHANGED <<loading, uploadingImage, toast, sub, confirms, uploadsSent>>
    /\ ProfileFrame

\* onOpenChange of the dialog (Esc, overlay) and its Cancel button
ProfileDialogClose ==
    /\ page = "profile"
    /\ editDialogOpen
    /\ editDialogOpen' = FALSE
    /\ UNCHANGED <<loading, formData, selectedProfileImage, profileImagePreview,
                   uploadingImage, toast, sub, confirms, uploadsSent>>
    /\ ProfileFrame

\* Profile.handleInputChange on the username input
handleInputChange(value) ==
    /\ page = "profile"
    /\ editDialogOpen
    /\ formData' = [formData EXCEPT !.username = value]
    /\ UNCHANGED <<loading, editDialogOpen, selectedProfileImage, profileImagePreview,
                   uploadingImage, toast, sub, confirms, uploadsSent>>
    /\ ProfileFrame

MaxProfileSize == 5 * 1024 * 1024

ProfileFiles == [size : {MaxProfileSize, MaxProfileSize + 1}, image : BOOLEAN]

\* the checks of Profile.handleImageSelect
ProfileImageIssue(file) ==
    IF ~file.image THEN "File must be an image"
    ELSE IF file.size > MaxProfileSize THEN "Image size must be less than 5MB"
    ELSE ""

\* Profile.handleImageSelect: keep the file and its preview for the submit
handleImageSelect(file) ==
    /\ page = "profile"
    /\ editDialogOpen
    /\ ~loading /\ ~uploadingImage
    /\ IF ProfileImageIssue(file) # ""
          THEN /\ toast' = ErrorToast(ProfileImageIssue(file))
               /\ UNCHANGED <<selectedProfileImage, profileImagePreview>>
          ELSE /\ selectedProfileImage' = "file"
               /\ profileImagePreview' = "blob"
               /\ UNCHANGED toast
    /\ UNCHANGED <<loading, editDialogOpen, formData, uploadingImage, sub, confirms,
                   uploadsSent>>
    /\ ProfileFrame

\* Profile.handleRemoveImage
handleRemoveImage ==
    /\ page = "profile"
    /\ editDialogOpen
    /\ ~loading /\ ~uploadingImage
    /\ selectedProfileImage = "file"
    /\ selectedProfileImage' = "null"
    /\ profileImagePreview' = ""
    /\ formData' = [formData EXCEPT !.profilePic = ""]
    /\ UNCHANGED <<loading, editDialogOpen, uploadingImage, toast, sub, confirms,
                   uploadsSent>>
    /\ ProfileFrame

\* Profile.handleSubmit up to its first await; formData.bio is always a
\* string, so updateData is never empty and the PUT request is always made
ProfileHandleSubmit ==
    /\ page = "profile"
    /\ editDialogOpen
    /\ ~loading
    /\ sub.phase = "idle"
    /\ confirms < MaxConfirms
    /\ confirms' = confirms + 1
    /\ IF ~HasToken
          THEN /\ toast' = ErrorToast("Please login to update profile")
               /\ UNCHANGED <<loading, uploadingImage, sub, uploadsSent, writesSent>>
          ELSE IF selectedProfileImage = "file"
          THEN /\ loading' = TRUE
               /\ uploadingImage' = TRUE
               /\ sub' = [IdleSub EXCEPT !.phase = "featured", !.featured = TRUE,
                                         !.selected = 1]
               /\ uploadsSent' = uploadsSent + 1
               /\ UNCHANGED <<toast, writesSent>>
          ELSE /\ loading' = TRUE
               /\ sub' = [IdleSub EXCEPT !.phase = "write"]
               /\ writesSent' = writesSent + 1
               /\ UNCHANGED <<uploadingImage, toast, uploadsSent>>
    /\ UNCHANGED <<page, otherPageVars,
                   session, navigated, mounted, feedVars, likeVars, backendVars,
                   mode, textVars, sectionVars, featuredVars, flagVars, limitVars,
                   stray, countCalls, loadCalls, editDialogOpen, formData,
                   selectedProfileImage, profileImagePreview>>

\* Profile.handleSubmit after the upload of the profile image
ProfileUploadDone(outcome) ==
    /\ page = "profile"
    /\ sub.phase = "featured"
    /\ IF outcome = "ok"
          THEN /\ uploadingImage' = FALSE
               /\ sub' = [sub EXCEPT !.phase = "write", !.uploaded = @ + 1]
               /\ writesSent' = writesSent + 1
               /\ UNCHANGED <<loading, toast>>
          ELSE /\ uploadingImage' = FALSE
               /\ loading' = FALSE
               /\ toast' = ErrorToast("Failed to upload image")
               /\ sub' = IdleSub
               /\ UNCHANGED writesSent
    /\ UNCHANGED <<page, otherPageVars,
                   session, navigated, mounted, feedVars, likeVars, backendVars,
                   mode, textVars, sectionVars, featuredVars, flagVars, limitVars,
                   stray, countCalls, loadCalls, editDialogOpen, formData,
                   selectedProfileImage, profileImagePreview, confirms, uploadsSent>>

\* Profile.handleSubmit after the answer to PUT /api/v1/auth/profile
ProfileWriteDone(outcome) ==
    /\ page = "profile"
    /\ sub.phase = "write"
    /\ sub' = IdleSub
    /\ loading' = FALSE
    /\ uploadingImage' = FALSE
    /\ IF outcome = "ok"
          THEN /\ toast' = SuccessToast("Profile updated successfully")
               /\ editDialogOpen' = FALSE
               /\ selectedProfileImage' = "null"
               /\ profileImagePreview' = ""
          ELSE /\ toast' = ErrorToast("Failed to update profile")
               /\ UNCHANGED <<editDialogOpen, selectedProfileImage, profileImagePreview>>
    /\ UNCHANGED <<formData, confirms, uploadsSent>>
    /\ ProfileFrame

----------------------------------------------------------------------------
(* UpdatePostListPage (My Posts): the list of the user's posts and its     *)
(* delete dialog.  A post is its postId; deletePostId 0 stands for null.   *)

MaxPosts == 2       \* posts the user owns at the start
MaxDeletes == 2     \* DELETE requests issued in a run
MaxListCalls == 2   \* list requests in flight when the session changes

PostIds == 1..MaxPosts

\* every variable the list page leaves alone
ListFrame ==
    UNCHANGED <<page, navigated, feedVars, likeVars, backendVars, mode, textVars,
                sectionVars, featuredVars, flagVars, limitVars, profileVars,
                flightVars, historyVars, authVars, searchVars>>

\* fetchPosts up to its first await, run with the session of its closure:
\* without a token it shows a toast and clears loading, else it sends the
\* list request
fetchPosts(hasToken, shown) ==
    IF hasToken
       THEN /\ loading' = TRUE
            /\ listCalls' = listCalls + 1
            /\ toast' = shown
       ELSE /\ loading' = FALSE
            /\ toast' = ErrorToast("JWT token or user ID not available")
            /\ UNCHANGED listCalls

\* useEffect(() => { if (session) fetchPosts() }, [session]) on mount
ListMount ==
    /\ page = "myposts"
    /\ ~mounted
    /\ mounted' = TRUE
    /\ IF session.present
          THEN fetchPosts(HasToken, toast)
          ELSE UNCHANGED <<loading, listCalls, toast>>
    /\ UNCHANGED <<session, listPosts, showDeleteModal, deletePostId, deleteLoading,
                   deleteCalls, bePosts, lastClicked, deleteSent, deleteStep>>
    /\ ListFrame

\* useSession() returns another session: the effect on [session] runs again
ListSessionChange(s) ==
    /\ page = "myposts"
    /\ mounted
    /\ s # session
    /\ listCalls < MaxListCalls
    /\ session' = s
    /\ IF s.present
          THEN fetchPosts(s.accessToken, toast)
          ELSE UNCHANGED <<loading, listCalls, toast>>
    /\ UNCHANGED <<mounted, listPosts, showDeleteModal, deletePostId, deleteLoading,
                   deleteCalls, bePosts, lastClicked, deleteSent, deleteStep>>
    /\ ListFrame

\* fetchPosts after its fetch: setPosts on an answer, a toast otherwise, and
\* setLoading(false) in the finally block
fetchPostsDone(ok) ==
    /\ page = "myposts"
    /\ listCalls > 0
    /\ listCalls' = listCalls - 1
    /\ loading' = FALSE
    /\ IF ok
          THEN /\ listPosts' = bePosts
               /\ UNCHANGED toast
          ELSE /\ toast' = ErrorToast("Failed to fetch posts")
               /\ UNCHANGED listPosts
    /\ UNCHANGED <<session, mounted, showDeleteModal, deletePostId, deleteLoading,
                   deleteCalls, bePosts, lastClicked, deleteSent, deleteStep>>
    /\ ListFrame

\* the cards are rendered when the list is not loading and not empty
CardShown(postId) == ~loading /\ postId \in listPosts

\* the Edit button of a card
handleEdit(postId) ==
    /\ page = "myposts"
    /\ mounted
    /\ navigated = ""
    /\ CardShown(postId)
    /\ navigated' = "/update/id"
    /\ UNCHANGED <<page, session, mounted, loading, feedVars, likeVars, backendVars,
                   formVars, otherPageVars>>

\* the Delete button of a card
handleDeleteClick(postId) ==
    /\ page = "myposts"
    /\ mounted
    /\ navigated = ""
    /\ CardShown(postId)
    /\ deletePostId' = postId
    /\ showDeleteModal' = TRUE
    /\ lastClicked' = postId
    /\ deleteStep' = "click"
    /\ UNCHANGED <<session, mounted, loading, toast, listPosts, deleteLoading,
                   deleteCalls, listCalls, bePosts, deleteSent>>
    /\ ListFrame

\* the buttons of the dialog are rendered while it is open and are disabled
\* while deleteLoading
DialogButtonEnabled == showDeleteModal /\ ~deleteLoading

\* the finally block of handleDeleteConfirm
DeleteFinally ==
    /\ deleteLoading' = FALSE
    /\ showDeleteModal' = FALSE
    /\ deletePostId' = 0

\* the Delete button of the dialog, up to the first await: nothing without
\* a deletePostId; without a token the throw is caught and the finally block
\* runs at once; else the DELETE request for deletePostId is sent
handleDeleteConfirm ==
    /\ page = "myposts"
    /\ mounted
    /\ navigated = ""
    /\ DialogButtonEnabled
    /\ Len(deleteSent) < MaxDeletes
    /\ IF deletePostId = 0
          THEN UNCHANGED <<toast, deleteVars>>
          ELSE IF ~HasToken
                  THEN /\ toast' = ErrorToast("Failed to delete post")
                       /\ DeleteFinally
                       /\ deleteStep' = "finished"
                       /\ UNCHANGED <<deleteCalls, deleteSent, listPosts, listCalls,
                                      bePosts, lastClicked>>
                  ELSE /\ deleteLoading' = TRUE
                       /\ deleteCalls' = Append(deleteCalls, deletePostId)
                       /\ deleteSent' = Append(deleteSent, deletePostId)
                       /\ deleteStep' = "confirm"
                       /\ UNCHANGED <<toast, showDeleteModal, deletePostId, listPosts,
                                      listCalls, bePosts, lastClicked>>
    /\ UNCHANGED <<session, mounted, loading>>
    /\ ListFrame

\* what the DELETE request can come to: isSuccess is true ("ok"), the
\* answer carries no success and is not ok ("refused"), or fetch / res.json
\* throws, with the post deleted or not
DeleteOutcomes == {"ok", "refused", "throws", "throwsDeleted"}

\* handleDeleteConfirm after its fetch: a toast, the reload of the list on
\* success, and the finally block
handleDeleteConfirmDone(outcome) ==
    /\ page = "myposts"
    /\ deleteCalls # <<>>
    /\ deleteCalls' = Tail(deleteCalls)
    /\ bePosts' = IF outcome \in {"ok", "throwsDeleted"}
                     THEN bePosts \ {Head(deleteCalls)}
                     ELSE bePosts
    /\ IF outcome = "ok"
          THEN fetchPosts(TRUE, SuccessToast("Post deleted successfully!"))
          ELSE /\ toast' = ErrorToast("Failed to delete post")
               /\ UNCHANGED <<loading, listCalls>>
    /\ DeleteFinally
    /\ deleteStep' = "finished"
    /\ UNCHANGED <<session, mounted, listPosts, lastClicked, deleteSent>>
    /\ ListFrame

\* the Cancel button, were it to leave deletePostId alone
handleDeleteCancel_KeepId ==
    /\ page = "myposts"
    /\ mounted
    /\ navigated = ""
    /\ DialogButtonEnabled
    /\ showDeleteModal' = FALSE
    /\ deleteStep' = "cancel"
    /\ UNCHANGED <<session, mounted, loading, toast, listPosts, deleteLoading,
                   deletePostId, deleteCalls, listCalls, bePosts, lastClicked,
                   deleteSent>>
    /\ ListFrame

\* the Cancel button of the dialog
handleDeleteCancel ==
    /\ page = "myposts"
    /\ mounted
    /\ navigated = ""
    /\ DialogButtonEnabled
    /\ showDeleteModal' = FALSE
    /\ deletePostId' = 0
    /\ deleteStep' = "cancel"
    /\ UNCHANGED <<session, mounted, loading, toast, listPosts, deleteLoading,
                   deleteCalls, listCalls, bePosts, lastClicked, deleteSent>>
    /\ ListFrame

\* <Dialog onOpenChange={setShowDeleteModal}>: Escape or a click outside
\* closes the dialog and keeps deletePostId
setShowDeleteModal(open) ==
    /\ page = "myposts"
    /\ mounted
    /\ navigated = ""
    /\ showDeleteModal
    /\ showDeleteModal' = open
    /\ deleteStep' = IF open THEN deleteStep ELSE "dismiss"
    /\ UNCHANGED <<session, mounted, loading, toast, listPosts, deletePostId,
                   deleteLoading, deleteCalls, listCalls, bePosts, lastClicked,
                   deleteSent>>
    /\ ListFrame

----------------------------------------------------------------------------
(* useAuth / useRequireAuth: the hooks of a page that requires a session   *)

MaxRenders == 4     \* renders of the hook in a run

\* the flags useAuth derives from useSession()
isAuthenticated(s) == s.status = "authenticated" /\ s.present
isLoading(s) == s.status = "loading"
isUnauthenticated(s) == s.status = "unauthenticated"

\* the arguments a page passes to useRequireAuth; "undefined" is the call
\* without an argument
RedirectArgs == {"undefined", "/auth/login", "/login"}

\* redirectTo: string = '/auth/login'
RedirectDefault(arg) == IF arg = "undefined" THEN "/auth/login" ELSE arg

\* what useSession() can return
HookSessions ==
    {NoSession("loading"), NoSession("unauthenticated"),
     Authenticated(TRUE, "member"), Authenticated(FALSE, "member")}

\* every variable the hook leaves alone
AuthFrame ==
    UNCHANGED <<page, mounted, loading, feedVars, likeVars, backendVars, formVars,
                deleteVars, searchVars, redirectTo>>

\* useSession() returns another status
SessionUpdate(s) ==
    /\ page = "guarded"
    /\ s # session
    /\ session' = s
    /\ UNCHANGED <<navigated, pushes, renders>>
    /\ AuthFrame

\* a render of the page runs the hook, which pushes the route while the
\* session is known to be missing
useRequireAuth_NotAuthenticated ==
    /\ page = "guarded"
    /\ renders < MaxRenders
    /\ renders' = renders + 1
    /\ IF ~isAuthenticated(session)
          THEN /\ pushes' = Append(pushes, RedirectDefault(redirectTo))
               /\ navigated' = RedirectDefault(redirectTo)
          ELSE UNCHANGED <<pushes, navigated>>
    /\ UNCHANGED session
    /\ AuthFrame

useRequireAuth ==
    /\ page = "guarded"
    /\ renders < MaxRenders
    /\ renders' = renders + 1
    /\ IF ~isLoading(session) /\ isUnauthenticated(session)
          THEN /\ pushes' = Append(pushes, RedirectDefault(redirectTo))
               /\ navigated' = RedirectDefault(redirectTo)
          ELSE UNCHANGED <<pushes, navigated>>
    /\ UNCHANGED session
    /\ AuthFrame

----------------------------------------------------------------------------
(* Navbar / SearchDialog: the debounced search.  Time passes in steps of   *)
(* one millisecond; a timer is the query of its closure, the milliseconds  *)
(* left, and whether the cleanup of the current effect clears it.          *)

MaxSearches == 2    \* search requests issued in a run

\* setTimeout(..., 500)
DebounceMs == 500

\* what the user can type into the input of the dialog
Queries == {Str(""), Blank, Str("x"), Str("ab")}

\* if (searchQuery): the empty string is falsy
Truthy(q) == StrLen(q) > 0

\* every variable the search leaves alone
SearchFrame ==
    UNCHANGED <<page, session, mounted, loading, feedVars, likeVars, backendVars,
                formVars, deleteVars, authVars>>

\* return () => clearTimeout(timer), were it missing
Cleanup_Never(ts) == {[t EXCEPT !.own = FALSE] : t \in ts}

\* return () => clearTimeout(timer): the cleanup of the previous effect run
Cleanup(ts) == {t \in ts : ~t.own}

\* the debounce effect, run again when searchQuery or open has changed:
\* the cleanup of the previous run, then a new timer while the dialog is
\* open
DebounceEffect(open, query) ==
    IF open
       THEN Cleanup(timers) \cup {[query |-> query, left |-> DebounceMs, own |-> TRUE]}
       ELSE Cleanup(timers)

\* Navbar.handleSearchInputClick with enableSearch: click or focus of the
\* input of the navbar opens the dialog
handleSearchInputClick ==
    /\ page = "navbar"
    /\ navigated = ""
    /\ ~searchOpen
    /\ searchOpen' = TRUE
    /\ timers' = DebounceEffect(TRUE, searchQuery)
    /\ UNCHANGED <<navigated, searchQuery, searchResults, searchLoading, searchCalls,
                   searchSent, sinceChange>>
    /\ SearchFrame

\* onChange of the input of the dialog: onSearchQueryChange(e.target.value)
onSearchQueryChange(value) ==
    /\ page = "navbar"
    /\ navigated = ""
    /\ searchOpen
    /\ value # searchQuery
    /\ searchQuery' = value
    /\ timers' = DebounceEffect(TRUE, value)
    /\ sinceChange' = 0
    /\ UNCHANGED <<navigated, searchOpen, searchResults, searchLoading, searchCalls,
                   searchSent>>
    /\ SearchFrame

\* one millisecond passes while a timer is running
Tick ==
    /\ page = "navbar"
    /\ \E t \in timers : t.left > 0
    /\ timers' = {[t EXCEPT !.left = IF @ > 0 THEN @ - 1 ELSE 0] : t \in timers}
    /\ sinceChange' = IF sinceChange < DebounceMs THEN sinceChange + 1 ELSE sinceChange
    /\ UNCHANGED <<navigated, searchOpen, searchQuery, searchResults, searchLoading,
                   searchCalls, searchSent>>
    /\ SearchFrame

\* a timer of the effect fires: performSearch for a non-empty query of the
\* closure, up to its await; performSearch sends nothing for a query that
\* is empty after trim
TimerFires(t) ==
    /\ page = "navbar"
    /\ t \in timers
    /\ t.left = 0
    /\ timers' = timers \ {t}
    /\ IF Truthy(t.query) /\ StrLen(Trim(t.query)) > 0
          THEN /\ Len(searchSent) < MaxSearches
               /\ searchLoading' = TRUE
               /\ searchCalls' = Append(searchCalls, t.query)
               /\ searchSent' = Append(searchSent, t.query)
               /\ UNCHANGED searchResults
          ELSE /\ searchResults' = "empty"
               /\ UNCHANGED <<searchLoading, searchCalls, searchSent>>
    /\ UNCHANGED <<navigated, searchOpen, searchQuery, sinceChange>>
    /\ SearchFrame

\* performSearch after apiClient.searchPosts: the posts of the answer, or
\* none when it throws, and searchLoading cleared in the finally block
performSearchDone(i, ok) ==
    /\ page = "navbar"
    /\ i \in 1..Len(searchCalls)
    /\ searchCalls' = RemoveAt(searchCalls, i)
    /\ searchResults' = IF ok THEN "posts" ELSE "empty"
    /\ searchLoading' = FALSE
    /\ UNCHANGED <<navigated, searchOpen, searchQuery, timers, searchSent, sinceChange>>
    /\ SearchFrame

\* Navbar.handleSearchOpenChange, the onOpenChange of the dialog: closing
\* clears the query, and the effect clears the results and sets no timer
handleSearchOpenChange(open) ==
    /\ page = "navbar"
    /\ navigated = ""
    /\ searchOpen
    /\ open # searchOpen
    /\ searchOpen' = open
    /\ searchQuery' = Str("")
    /\ searchResults' = "empty"
    /\ timers' = DebounceEffect(open, Str(""))
    /\ sinceChange' = 0
    /\ UNCHANGED <<navigated, searchLoading, searchCalls, searchSent>>
    /\ SearchFrame

\* a click on a result: onOpenChange(false), onSearchQueryChange("") and
\* router.push("/")
handlePostClick ==
    /\ page = "navbar"
    /\ navigated = ""
    /\ searchOpen
    /\ ~searchLoading /\ StrLen(Trim(searchQuery)) > 0 /\ searchResults = "posts"
    /\ searchOpen' = FALSE
    /\ searchQuery' = Str("")
    /\ searchResults' = "empty"
    /\ timers' = DebounceEffect(FALSE, Str(""))
    /\ sinceChange' = 0
    /\ navigated' = "/"
    /\ UNCHANGED <<searchLoading, searchCalls, searchSent>>
    /\ SearchFrame

----------------------------------------------------------------------------
(* Initial values: the useState defaults of the components *)

\* Post / AdminUpdatePostPage / Profile before any input
FormIdle ==
    /\ title = Str("")
    /\ description = Str("")
    /\ category = Str("")
    /\ customCategory = Str("")
    /\ mediaUrl = ""
    /\ contentSections = <<>>
    /\ contentSectionImageFiles = <<>>
    /\ contentSectionImagePreviews = <<>>
    /\ selectedFeaturedImage = "null"
    /\ featuredImagePreview = "null"
    /\ showSubmitModal = FALSE
    /\ confirmLoading = FALSE
    /\ uploadingFeaturedImage = FALSE
    /\ userPostsCount = -1                     \* null
    /\ userRole = "null"
    /\ postLimitReached = FALSE
    /\ toast = NoToast
    /\ editDialogOpen = FALSE
    /\ formData = EmptyForm
    /\ selectedProfileImage = "null"
    /\ profileImagePreview = ""
    /\ uploadingImage = FALSE
    /\ sub = IdleSub
    /\ stray = <<>>
    /\ countCalls = 0
    /\ loadCalls = 0
    /\ confirms = 0
    /\ uploadsSent = 0
    /\ writesSent = 0

\* Home / SharePost before their mount effects
FeedIdle ==
    /\ posts = <<>>
    /\ loadingMore = FALSE
    /\ offset = 0
    /\ hasMore = TRUE
    /\ feedCalls = {}
    /\ feedLog = {}
    /\ cards = [p \in LikeIds |-> [mounted |-> FALSE, isLiked |-> FALSE, likesCount |-> 0]]
    /\ shPost = FALSE
    /\ shLiked = FALSE
    /\ shLikes = 0
    /\ likeCalls = <<>>
    /\ likeClicks = 0
    /\ reported = [p \in LikeIds |-> {}]

\* UpdatePostListPage before its mount effect
ListIdle ==
    /\ listPosts = {}
    /\ showDeleteModal = FALSE
    /\ deletePostId = 0                        \* null
    /\ deleteLoading = FALSE
    /\ deleteCalls = <<>>
    /\ listCalls = 0
    /\ lastClicked = 0
    /\ deleteSent = <<>>
    /\ deleteStep = "idle"

\* no router.push of useRequireAuth yet
AuthIdle ==
    /\ pushes = <<>>
    /\ renders = 0

\* Navbar / SearchDialog before any input
SearchIdle ==
    /\ searchOpen = FALSE
    /\ searchQuery = Str("")
    /\ searchResults = "empty"
    /\ searchLoading = FALSE
    /\ timers = {}
    /\ searchCalls = <<>>
    /\ searchSent = <<>>
    /\ sinceChange = 0

\* the pages that are not shown
OtherPagesIdle ==
    /\ ListIdle
    /\ bePosts = {}
    /\ redirectTo = "undefined"
    /\ AuthIdle
    /\ SearchIdle

\* a form page before its mount effects
InitForm ==
    /\ OtherPagesIdle
    /\ navigated = ""
    /\ mounted = FALSE
    /\ loading = FALSE
    /\ FeedIdle
    /\ beLiked = [p \in LikeIds |-> FALSE]
    /\ beLikes = [p \in LikeIds |-> 0]
    /\ FormIdle

----------------------------------------------------------------------------
(* The feed and like specification: the home page or the share page *)

InitFeed ==
    /\ page \in {"home", "share"}
    /\ OtherPagesIdle
    /\ session \in {NoSession("unauthenticated"), Authenticated(TRUE, "member")}
    /\ navigated = ""
    /\ mounted = FALSE
    /\ loading = TRUE
    /\ FeedIdle
    /\ beLiked \in [LikeIds -> BOOLEAN]
    /\ beLikes = [p \in LikeIds |-> IF beLiked[p] THEN 1 ELSE 0]
    /\ mode = "create"
    /\ FormIdle

NextFeed ==
    \/ HomeMount
    \/ handleLoadMore
    \/ \E call \in feedCalls, n \in PageSizes, total \in Totals :
          loadPostsDone(call, n, total)
    \/ \E call \in feedCalls : loadPostsFail(call)
    \/ \E p \in LikeIds : PostCardHandleLike(p)
    \/ SharePostHandleLike
    \/ \E i \in 1..MaxLikeClicks : BackendLikeOk(i)
    \/ \E i \in 1..MaxLikeClicks : BackendLikeError(i)
    \/ \E i \in 1..MaxLikeClicks : LikeFetchThrows(i)
    \/ \E p \in LikeIds : BackendOtherLike(p)
    \/ \E i \in 1..MaxLikeClicks : PostCardLikeDone(i)
    \/ \E i \in 1..MaxLikeClicks : SharePostLikeDone(i)
    \/ SharePostMount
    \/ \E ok \in BOOLEAN : fetchPostDone(ok)

SpecFeed == InitFeed /\ [][NextFeed]_vars

----------------------------------------------------------------------------
(* The section editing specification: the composer in create mode, or the  *)
(* edit page with the post it loads                                        *)

InitSections ==
    /\ \/ page = "post" /\ mode = "create"
       \/ page = "update" /\ mode = "edit"
    /\ session \in {Authenticated(TRUE, "member"), Authenticated(TRUE, "admin")}
    /\ InitForm

NextSections ==
    \/ PostMount
    \/ \E outcome \in CountOutcomes : fetchPostsCountDone(outcome, "member", 0)
    \/ fetchPost
    \/ \E ok \in BOOLEAN, post \in {q \in BackendPosts : Len(q.sections) = 1} :
          fetchPostLoaded(ok, post)
    \/ \E type \in {"image", "code"} : PostAddContentSection(type)
    \/ \E type \in {"code"} : AdminAddContentSection(type)
    \/ \E si \in 1..MaxSections : addImageDetail(si)
    \/ \E si \in 1..MaxSections, ii \in 1..MaxSlots : removeImageDetail(si, ii)
    \/ \E si \in 1..MaxSections : removeContentSection(si)
    \/ \E si \in 1..MaxSections, direction \in {"up", "down"} :
          moveContentSection(si, direction)
    \/ \E si \in 1..MaxSections, ii \in 1..MaxFileSlot, file \in {"file", "null"} :
          handleContentSectionImageChange(si, ii, file)

SpecSections == InitSections /\ [][NextSections]_vars

----------------------------------------------------------------------------
(* The submit specification: the composer (create or edit), the edit page  *)
(* or the profile dialog, with a valid title and category, files chosen    *)
(* and every answer of the upload endpoint and of the backend              *)

\* the sessions of a signed-in user, with and without a backend token
SignedIn == {Authenticated(TRUE, "member"), Authenticated(FALSE, "member")}

InitSubmit ==
    /\ \/ page = "post" /\ mode \in {"create", "edit"}
       \/ page = "update" /\ mode = "edit"
       \/ page = "profile" /\ mode = "edit"
    /\ session \in SignedIn
    /\ InitForm

NextSubmit ==
    \/ PostMount
    \/ fetchPostsCountDone("success", "member", 0)
    \/ \E ok \in BOOLEAN, post \in BackendPosts : loadPostForEditDone(ok, post)
    \/ fetchPost
    \/ \E post \in BackendPosts : fetchPostLoaded(TRUE, post)
    \/ setTitle(Str("abc"))
    \/ onCategoryChange(Str("NEWS"))
    \/ PostAddContentSection("image")
    \/ \E si \in 1..MaxSections, ii \in 1..MaxFileSlot :
          handleContentSectionImageChange(si, ii, "file")
    \/ \E file \in PickedFiles : handleFeaturedImageChange(file)
    \/ handleRemoveFeaturedImage
    \/ handleSubmit
    \/ handleCancel
    \/ onOpenChange
    \/ handleSubmitConfirm
    \/ \E outcome \in Outcomes : PostFeaturedDone(outcome)
    \/ \E si \in 1..MaxSections, outcome \in Outcomes : PostSectionUploadDone(si, outcome)
    \/ \E outcome \in Outcomes : PostWriteDone(outcome)
    \/ \E k \in 1..MaxSections, ok \in BOOLEAN : StrayUploadDone(k, ok)
    \/ \E hasPostId \in BOOLEAN : PostCountDone(TRUE, "member", 1, hasPostId)
    \/ handleUpdateConfirm
    \/ \E si \in 1..MaxSections, outcome \in Outcomes : AdminSectionUploadDone(si, outcome)
    \/ \E outcome \in Outcomes : AdminFeaturedDone(outcome)
    \/ \E outcome \in Outcomes : AdminWriteDone(outcome)
    \/ handleEditClick
    \/ ProfileDialogClose
    \/ handleInputChange("new")
    \/ \E file \in ProfileFiles : handleImageSelect(file)
    \/ handleRemoveImage
    \/ ProfileHandleSubmit
    \/ \E outcome \in Outcomes : ProfileUploadDone(outcome)
    \/ \E outcome \in Outcomes : ProfileWriteDone(outcome)

SpecSubmit == InitSubmit /\ [][NextSubmit]_vars

----------------------------------------------------------------------------
(* The validation specification: the composer in create mode with titles,  *)
(* descriptions and categories on both sides of the schema's limits        *)

Titles == {Str("ab"), Padded("ab"), Str("abc")}
Descriptions == {Str(""), Str("text501"), Str("text5001")}
Categories == {Str(""), Str("NEWS"), Str("__CUSTOM__")}
CustomCategories == {Blank, Str("x")}

InitValidate ==
    /\ page = "post" /\ mode = "create"
    /\ session \in {NoSession("loading"), Authenticated(TRUE, "member")}
    /\ InitForm

NextValidate ==
    \/ PostMount
    \/ fetchPostsCountDone("success", "member", 0)
    \/ \E value \in Titles : setTitle(value)
    \/ \E value \in Descriptions : setDescription(value)
    \/ \E value \in Categories : onCategoryChange(value)
    \/ \E value \in CustomCategories : setCustomCategory(value)
    \/ handleFeaturedImageChange([size |-> MaxFeaturedSize, image |-> TRUE])
    \/ handleSubmit
    \/ handleCancel
    \/ onOpenChange
    \/ handleSubmitConfirm
    \/ \E outcome \in {"ok", "notOk"} : PostFeaturedDone(outcome)
    \/ \E outcome \in {"ok", "notOk"} : PostWriteDone(outcome)
    \/ PostCountDone(TRUE, "member", 1, FALSE)

SpecValidate == InitValidate /\ [][NextValidate]_vars

----------------------------------------------------------------------------
(* The post limit specification: the composer in create mode and the       *)
(* answers of the posts-count endpoint                                     *)

InitLimit ==
    /\ page = "post" /\ mode = "create"
    /\ session = Authenticated(TRUE, "member")
    /\ InitForm

NextLimit ==
    \/ PostMount
    \/ \E outcome \in CountOutcomes, role \in CountRoles, postsCount \in PostsCounts :
          fetchPostsCountDone(outcome, role, postsCount)
    \/ setTitle(Str("abc"))
    \/ onCategoryChange(Str("NEWS"))
    \/ handleSubmit
    \/ handleCancel
    \/ handleSubmitConfirm
    \/ \E outcome \in Outcomes : PostWriteDone(outcome)
    \/ \E success \in BOOLEAN, role \in CountRoles, postsCount \in PostsCounts,
          hasPostId \in BOOLEAN : PostCountDone(success, role, postsCount, hasPostId)

SpecLimit == InitLimit /\ [][NextLimit]_vars

----------------------------------------------------------------------------
(* The delete specification: the My Posts page of a signed-in user whose   *)
(* session may lose and regain its token                                   *)

ListSessions == {Authenticated(TRUE, "member"), Authenticated(FALSE, "member")}

InitDelete ==
    /\ page = "myposts"
    /\ session = Authenticated(TRUE, "member")
    /\ navigated = ""
    /\ mounted = FALSE
    /\ loading = FALSE
    /\ FeedIdle
    /\ beLiked = [p \in LikeIds |-> FALSE]
    /\ beLikes = [p \in LikeIds |-> 0]
    /\ mode = "create"
    /\ FormIdle
    /\ ListIdle
    /\ bePosts = PostIds
    /\ redirectTo = "undefined"
    /\ AuthIdle
    /\ SearchIdle

NextDelete ==
    \/ ListMount
    \/ \E s \in ListSessions : ListSessionChange(s)
    \/ \E ok \in BOOLEAN : fetchPostsDone(ok)
    \/ \E postId \in PostIds : handleEdit(postId)
    \/ \E postId \in PostIds : handleDeleteClick(postId)
    \/ handleDeleteConfirm
    \/ \E outcome \in DeleteOutcomes : handleDeleteConfirmDone(outcome)
    \/ handleDeleteCancel
    \/ setShowDeleteModal(FALSE)

SpecDelete == InitDelete /\ [][NextDelete]_vars

----------------------------------------------------------------------------
(* The hook specification: a page that calls useRequireAuth while the      *)
(* session status changes                                                  *)

InitAuth ==
    /\ page = "guarded"
    /\ session \in HookSessions
    /\ navigated = ""
    /\ mounted = FALSE
    /\ loading = FALSE
    /\ FeedIdle
    /\ beLiked = [p \in LikeIds |-> FALSE]
    /\ beLikes = [p \in LikeIds |-> 0]
    /\ mode = "create"
    /\ FormIdle
    /\ ListIdle
    /\ bePosts = {}
    /\ redirectTo \in RedirectArgs
    /\ AuthIdle
    /\ SearchIdle

NextAuth ==
    \/ \E s \in HookSessions : SessionUpdate(s)
    \/ useRequireAuth

SpecAuth == InitAuth /\ [][NextAuth]_vars

----------------------------------------------------------------------------
(* The search specification: a page with the navbar and its search dialog  *)

InitSearch ==
    /\ page = "navbar"
    /\ session = NoSession("unauthenticated")
    /\ navigated = ""
    /\ mounted = FALSE
    /\ loading = FALSE
    /\ FeedIdle
    /\ beLiked = [p \in LikeIds |-> FALSE]
    /\ beLikes = [p \in LikeIds |-> 0]
    /\ mode = "create"
    /\ FormIdle
    /\ OtherPagesIdle

NextSearch ==
    \/ handleSearchInputClick
    \/ \E value \in Queries : onSearchQueryChange(value)
    \/ Tick
    \/ \E t \in timers : TimerFires(t)
    \/ \E i \in 1..MaxSearches, ok \in BOOLEAN : performSearchDone(i, ok)
    \/ handleSearchOpenChange(FALSE)
    \/ handlePostClick

SpecSearch == InitSearch /\ [][NextSearch]_vars

----------------------------------------------------------------------------
(* Properties of the feed and the likes *)

\* C1: in the home feed, once the initial reset load and any load-more calls
\* have completed, offset equals the number of posts held; the reset load
\* requests offset 0 and every load-more request is issued with offset equal
\* to the number of posts already loaded.
C1_OffsetAccumulator ==
    page = "home" =>
        /\ (mounted /\ feedCalls = {} => offset = Len(posts))
        /\ \A r \in feedLog :
              IF r.reset THEN r.offset = 0 ELSE r.offset = r.held

\* a load-more call has completed after a full first page:
\* the feed holds more than one page and nothing is in flight
C1_Witness ==
    /\ page = "home"
    /\ feedCalls = {}
    /\ Len(posts) = limit + 1
    /\ \E r \in feedLog : ~r.reset /\ r.offset = limit

\* the liked flag and like count the page shows for the followed post
LikeShown ==
    IF page = "home"
       THEN <<cards[ShareId].isLiked, cards[ShareId].likesCount>>
       ELSE <<shLiked, shLikes>>

\* the like button of the followed post is on screen
LikeRendered == IF page = "home" THEN cards[ShareId].mounted ELSE shPost

\* C2 as stated: the displayed liked flag and like count change at click
\* time, before the backend's response has arrived.
C2_OptimisticLike ==
    [][likeClicks' > likeClicks => LikeShown' # LikeShown]_vars

\* C2 as amended: a like click leaves the displayed liked flag and like count
\* unchanged; they change only in the step that handles an ok response of a
\* like request.
C2_LikeAfterResponse ==
    [][/\ (likeClicks' > likeClicks => LikeShown' = LikeShown)
       /\ (LikeRendered /\ LikeShown' # LikeShown =>
              \E i \in 1..Len(likeCalls) :
                 /\ likeCalls[i].stage = "response"
                 /\ likeCalls[i].ok
                 /\ likeCalls' = RemoveAt(likeCalls, i))]_vars

\* a like request is in flight and the page still shows what it showed at the click
C2_Witness ==
    \E i \in 1..Len(likeCalls) :
        /\ likeCalls[i].stage = "request"
        /\ LikeRendered
        /\ LikeShown = <<likeCalls[i].isLiked, likeCalls[i].likesCount>>

\* C5: every like count held in client state (PostCard likesCount, SharePost
\* likesCount, Home posts[].likesCount) is a like count the backend reported
\* for that post.
C5_CountsFromBackend ==
    /\ \A p \in LikeIds :
          page = "home" /\ cards[p].mounted => cards[p].likesCount \in reported[p]
    /\ \A i \in 1..Len(posts) :
          posts[i].postId \in LikeIds =>
             posts[i].likesCount \in reported[posts[i].postId]
    /\ (page = "share" /\ shPost => shLikes \in reported[ShareId])

----------------------------------------------------------------------------
(* Properties of the section editor *)

\* no two sections of the form have the same type
UniqueTypes ==
    \A i, j \in 1..Len(contentSections) :
        contentSections[i].type = contentSections[j].type => i = j

\* a toast that was not on screen before the step
Shown(t) == toast' = t /\ toast # t

\* C6: in the post composer, started from the empty form, contentSections
\* never holds two sections of the same type, and an add that is rejected
\* with the 'Limit reached' toast leaves contentSections and the image
\* file and preview arrays as they were.
C6_OneSectionPerType ==
    /\ [](page = "post" => UniqueTypes)
    /\ [][page = "post" /\ (\E type \in SectionTypes : Shown(OnlyOneToast(type)))
             => UNCHANGED sectionVars]_vars

\* an add of a second image section has been rejected in a form that has
\* seen sections added, and still holds two of them
C6_Witness ==
    /\ page = "post"
    /\ toast = OnlyOneToast("image")
    /\ Len(contentSections) = 2
    /\ HasSectionOfType("image")

\* the image slots of every image section are within the limit of the role
WithinImageLimit(role) ==
    \A si \in 1..Len(contentSections) :
        contentSections[si].type = "image"
            => Len(contentSections[si].imageDetail) <= ImageLimit(role)

\* C7: for a role other than owner / admin / mod an image section never
\* holds more than 5 image slots (30 for god), an add at the limit changes
\* nothing, and owner / admin / mod are never refused a slot.
C7_ImageLimit ==
    /\ [](~isPrivilegedRole(session.userType) => WithinImageLimit(session.userType))
    /\ [][Shown(ImageLimitToast(session.userType)) => UNCHANGED sectionVars]_vars
    /\ \A n \in 0..(ImageLimit("god") + 1) :
          /\ AddImageRejected("god", n) <=> n >= 30
          /\ AddImageRejected("member", n) <=> n >= 5
          /\ \A role \in {"owner", "admin", "mod"} : ~AddImageRejected(role, n)

\* a member has been refused a sixth slot in a section that holds five
C7_Witness ==
    /\ session.userType = "member"
    /\ toast = ImageLimitToast("member")
    /\ \E si \in 1..Len(contentSections) :
          /\ contentSections[si].type = "image"
          /\ Len(contentSections[si].imageDetail) = 5

\* an admin holds more slots in a section than a member may
C7_PrivilegedBeyond ==
    /\ session.userType = "admin"
    /\ \E si \in 1..Len(contentSections) :
          /\ contentSections[si].type = "image"
          /\ Len(contentSections[si].imageDetail) > ImageLimit("admin")

----------------------------------------------------------------------------
(* Properties of the submit *)

\* files the user has chosen and the form shows: those in the slots of the
\* image sections, the featured image, the profile image
FilesHeld ==
    SumSeq(SectionPending(contentSections, contentSectionImageFiles))
                    + (IF selectedFeaturedImage = "file" THEN 1 ELSE 0)
                    + (IF selectedProfileImage = "file" THEN 1 ELSE 0)

\* a submit handler, or an upload chain it started, is running
Submitting == sub.phase # "idle" \/ stray # <<>>

\* C3: choosing a featured image, a section image or a profile image sends
\* no request to /api/cloudnary; a request to it is sent only by the step
\* that confirms a submit or by a step of a confirmed submit.
C3_DeferredUpload ==
    /\ [](uploadsSent > 0 => confirms > 0)
    /\ [][FilesHeld' # FilesHeld /\ ~Submitting /\ confirms' = confirms
             => uploadsSent' = uploadsSent]_vars
    /\ [][uploadsSent' # uploadsSent => confirms' > confirms \/ Submitting]_vars

\* a featured image and a section image are chosen, each with its preview,
\* and nothing has been sent
C3_Witness ==
    /\ page = "post"
    /\ selectedFeaturedImage = "file" /\ featuredImagePreview = "blob"
    /\ FilesHeld = 2
    /\ confirms = 0
    /\ uploadsSent = 0

\* the submit in flight has ended in this step on a failed upload
UploadFailed ==
    /\ sub.phase \in {"featured", "sections"}
    /\ sub'.phase = "idle"

\* C4: the create / update request is sent only when every image chosen at
\* the confirm has been uploaded, and a submit that ends on a failed upload sends no such
\* request and leaves loading, confirmLoading, uploadingFeaturedImage and
\* uploadingImage false.
C4_UploadsBeforeWrite ==
    /\ [][writesSent' > writesSent => sub'.uploaded = sub'.selected]_vars
    /\ [][UploadFailed =>
             /\ writesSent' = writesSent
             /\ ~loading' /\ ~confirmLoading'
             /\ ~uploadingFeaturedImage' /\ ~uploadingImage']_vars

----------------------------------------------------------------------------
(* Properties of the post limit and of the validation *)

\* the limits the ROLE LIMITS banner of the composer prints
BannerLimitReached(role, postsCount) ==
    /\ role \in {"member", "vip", "god"}
    /\ postsCount >= (CASE role = "member" -> 3 [] role = "vip" -> 5 [] role = "god" -> 10)

\* C8: in create mode, once the backend has reported the role and the
\* posts count, postLimitReached is true exactly when the role is member,
\* vip or god and the count is at least 3, 5 or 10, and then the submit
\* button is disabled.
C8_RoleLimits ==
    page = "post" /\ mode = "create" /\ userRole # "null" =>
        /\ postLimitReached <=> BannerLimitReached(userRole, userPostsCount)
        /\ postLimitReached => ~SubmitEnabled

\* the step is a press of the confirm button of the composer
ConfirmPressed == page = "post" /\ confirms' > confirms

\* C9: on confirm in the composer, with a session and a title of at least
\* 3 characters, a description of more than 500 characters is answered by
\* the toast 'Description max 500 characters' and nothing is sent.
C9_DescriptionMax500 ==
    [][/\ ConfirmPressed
       /\ session.present
       /\ StrLen(Trim(title)) >= 3
       /\ StrLen(Trim(description)) > 500
       => /\ toast' = ErrorToast("Description max 500 characters")
          /\ UNCHANGED <<uploadsSent, writesSent>>]_vars

\* the category handleSubmitConfirm validates
EffectiveCategory == IF isCustomCategory THEN customCategory ELSE category

\* C10: a confirm in the composer without a session, or with a trimmed title
\* of fewer than 3 characters, or with an empty trimmed category, sends no
\* upload and no create / update request, leaves confirmLoading false and
\* changes neither the texts, nor the sections, nor the chosen files.
C10_EarlyReturns ==
    [][/\ ConfirmPressed
       /\ \/ ~session.present
          \/ StrLen(Trim(title)) < 3
          \/ StrLen(Trim(EffectiveCategory)) = 0
       => /\ UNCHANGED <<uploadsSent, writesSent>>
          /\ ~confirmLoading'
          /\ sub'.phase = "idle"
          /\ UNCHANGED <<textVars, sectionVars, featuredVars>>]_vars

\* a confirm with a title of two characters and a chosen featured image has
\* been answered by the title toast, and nothing was sent
C10_Witness ==
    /\ page = "post"
    /\ session.present
    /\ confirms > 0
    /\ Trim(title) = Str("ab")
    /\ selectedFeaturedImage = "file"
    /\ toast = ErrorToast("Title must be at least 3 characters")
    /\ uploadsSent = 0 /\ writesSent = 0
    /\ ~confirmLoading

----------------------------------------------------------------------------
(* Properties of the confirmation modal *)

\* the composer or the edit page is shown
OnFormPage == page \in {"post", "update"}

\* the step opens the confirmation modal
ModalOpened == OnFormPage /\ ~showSubmitModal /\ showSubmitModal'

\* the step closes the modal and is not a step of a submit handler: the
\* Cancel button, Escape or a click outside
ModalDismissed ==
    /\ OnFormPage
    /\ showSubmitModal /\ ~showSubmitModal'
    /\ confirms' = confirms
    /\ sub' = sub

----------------------------------------------------------------------------
(* Properties of the delete dialog *)

\* a step that sends a DELETE request
DeleteIssued == deleteSent' # deleteSent

\* a step of the Cancel button
DeleteCancelled == showDeleteModal /\ deleteStep' = "cancel" /\ deleteCalls' = deleteCalls

\* the dialog is closed and nothing is selected or running
DeleteReset == ~showDeleteModal /\ deletePostId = 0 /\ ~deleteLoading

\* C12: on the My Posts page a DELETE request is sent only by
\* handleDeleteConfirm (pressed on the enabled button of the open dialog,
\* which sets deleteLoading) and only for the id given to the latest
\* handleDeleteClick; a step of handleDeleteCancel sends no request; and
\* once the confirm has finished, with success or failure, or Cancel was
\* pressed, the dialog is closed, deletePostId is null and deleteLoading is
\* false.
C12_DeleteDialog ==
    /\ [][DeleteIssued =>
             /\ DialogButtonEnabled
             /\ deleteStep' = "confirm" /\ deleteLoading'
             /\ lastClicked # 0 /\ deletePostId = lastClicked
             /\ deleteSent' = Append(deleteSent, lastClicked)]_vars
    /\ [][DeleteCancelled => ~DeleteIssued]_vars
    /\ [](page = "myposts" /\ deleteStep \in {"finished", "cancel"} => DeleteReset)

\* a DELETE for the post clicked last has been sent and has come back
C12_Witness ==
    /\ page = "myposts"
    /\ deleteStep = "finished"
    /\ deleteSent # <<>>
    /\ deleteSent[Len(deleteSent)] = lastClicked
    /\ deleteCalls = <<>>
    /\ DeleteReset

----------------------------------------------------------------------------
(* Properties of useAuth / useRequireAuth *)

\* a render of the hook
HookRendered == renders' # renders

\* a router.push of the hook
HookPushed == pushes' # pushes

\* the number of flags that are true
FlagsTrue(s) ==
    (IF isAuthenticated(s) THEN 1 ELSE 0) + (IF isLoading(s) THEN 1 ELSE 0)
        + (IF isUnauthenticated(s) THEN 1 ELSE 0)

\* C13: a render of useRequireAuth pushes a route if and only if the
\* session status is "unauthenticated", so never while it is "loading" or
\* "authenticated"; the route pushed is the argument, "/auth/login" when
\* the argument is omitted; nothing else pushes; and for every session
\* status at most one of isAuthenticated, isLoading and isUnauthenticated
\* is true.
C13_RequireAuth ==
    /\ [][HookRendered => (HookPushed <=> session.status = "unauthenticated")]_vars
    /\ [][HookPushed =>
             /\ HookRendered
             /\ session.status \notin {"loading", "authenticated"}
             /\ pushes' = Append(pushes, IF redirectTo = "undefined" THEN "/auth/login"
                                                                     ELSE redirectTo)]_vars
    /\ [](page = "guarded" => FlagsTrue(session) <= 1)

\* the hook has rendered without a push while the status was not
\* "unauthenticated" and has pushed the default route once it was
C13_Witness ==
    /\ page = "guarded"
    /\ redirectTo = "undefined"
    /\ renders >= 2
    /\ pushes = <<"/auth/login">>
    /\ session.status = "unauthenticated"

----------------------------------------------------------------------------
(* Properties of the debounced search *)

\* a step that sends a search request
SearchIssued == searchSent' # searchSent

\* a step that changes the query or closes the dialog
QueryReplaced == searchQuery' # searchQuery \/ (searchOpen /\ ~searchOpen')

\* C14: a search request is sent only while the dialog is open, by a step
\* in which a due timer fires, no sooner than DebounceMs after the query
\* last changed, and for the query as it is then, which is not empty after
\* trim; a step that changes the query or closes the dialog leaves none of
\* the timers that were pending; at most one timer is pending; and no
\* request carries an empty or whitespace-only query.
C14_Debounce ==
    /\ [][SearchIssued =>
             /\ searchOpen
             /\ \E t \in timers : t.left = 0 /\ t \notin timers'
             /\ sinceChange >= DebounceMs
             /\ searchSent' = Append(searchSent, searchQuery)
             /\ TextLen(searchQuery.text) > 0]_vars
    /\ [][QueryReplaced => timers \cap timers' = {}]_vars
    /\ [](Cardinality(timers) <= 1)
    /\ [](\A i \in 1..Len(searchSent) : TextLen(searchSent[i].text) > 0)

\* a request has been sent, and later the timer of a whitespace-only query
\* has fired without one
C14_Witness ==
    /\ page = "navbar"
    /\ searchOpen
    /\ searchQuery = Blank
    /\ timers = {}
    /\ sinceChange = DebounceMs
    /\ Len(searchSent) = 1

====
